---- MODULE Spec2Model ----
(***************************************************************************)
(* TopsailAI agent runtime: the prompt context and its archiver            *)
(* (ai_base/prompt_base.py, context/chat_history_manager/__base.py), the  *)
(* LLM gateway (ai_base/llm_base.py) and the agent loop                    *)
(* (ai_base/agent_base.py).                                                *)
(*                                                                         *)
(* Python strings are modelled as sequences of tokens (Seq(STRING)), so    *)
(* that concatenation, prefixes and lengths are computed, not assumed.     *)
(* A dict is a TLA+ function whose DOMAIN is the dict's key set.           *)
(***************************************************************************)
EXTENDS Integers, Sequences, FiniteSets, TLC

VARIABLES
    cfg,          \* PromptBase configuration fixed at construction
    messages,     \* PromptBase.messages
    stores,       \* one storage state per hook of hooks_ctx_history
    chat,         \* the locals of one LLMModel.chat call
    stream,       \* the locals of one LLMModel.call_llm_model_by_stream call
    extract,      \* the arguments and the result of one get_tool_call_info call
    agent,        \* the locals of one AgentBase.run call
    tokenStat     \* the TokenStat of the LLMModel, its thread and the clock

ctxVars == <<cfg, messages, stores>>

procVars == <<chat, stream, extract, agent, tokenStat>>

vars == <<cfg, messages, stores, chat, stream, extract, agent, tokenStat>>

(***************************************************************************)
(* Bounds of the model                                                     *)
(***************************************************************************)
\* longest message list explored
MaxMsgs == 16
\* turns after the header that are arbitrary; the later ones are the filler turn
FreeTurns == 1
\* chunks of one streamed completion
MaxChunks == 5
\* completion calls of one run of the agent loop
MaxTurns == 3
\* completion calls of one run on which every turn makes progress
MaxRunawayCalls == 101
\* characters of an oversized text token / of any other token
BigLen == 2000
SmallLen == 8
\* MAX_TOKENS of the explored configuration: one oversized step exceeds the ratio
TokenMax == 2500
\* completion calls of one chat() that are explored
MaxChatCalls == 101
\* the add_message calls of one archival pass among which one may raise
MaxFail == 2
\* shortest message list handed to a direct archival pass
MinLinkLen == 14

(***************************************************************************)
(* Program constants                                                       *)
(***************************************************************************)
ROLE_SYSTEM == "system"
ROLE_USER == "user"
ROLE_ASSISTANT == "assistant"
ROLE_TOOL == "tool"

\* link_messages(messages, index_start=3, index_end=-11, max_size=1024)
index_start == 3
index_end == -11
max_size == 1024

ignored_roles == {ROLE_SYSTEM, ROLE_USER}
attention_step_names == {<<"action">>, <<"observation">>}
prefix_raw_text_retrieve_msg == <<"retrieve_msg by msg_id=">>

\* Python None / "" for a text, and None for a session id
None == <<>>
NoSession == ""

(***************************************************************************)
(* Texts                                                                   *)
(***************************************************************************)
BigTokens == {"BIG1", "BIG2"}

TokLen(tok) == IF tok \in BigTokens THEN BigLen ELSE SmallLen

RECURSIVE StrLen(_)
\* len(text)
StrLen(text) == IF text = <<>> THEN 0 ELSE TokLen(Head(text)) + StrLen(Tail(text))

\* the keys of a step dict, in the order the dumps print them
KeyOrder == <<"step_name", "raw_text", "tool_call", "tool_args", "note">>

KeysOf(d) == SelectSeq(KeyOrder, LAMBDA k : k \in DOMAIN d)

RECURSIVE DumpKeys(_, _)
DumpKeys(d, ks) ==
    IF ks = <<>> THEN <<>>
    ELSE <<Head(ks), ":">> \o d[Head(ks)] \o DumpKeys(d, Tail(ks))

\* json_tool.json_dump(content_dict, indent=0): the text of a dict
json_dump_dict(d) == <<"{">> \o DumpKeys(d, KeysOf(d)) \o <<"}">>

\* len(str(content_dict))
DictStrLen(d) == StrLen(json_dump_dict(d))

\* hash_tool.md5sum: a digest determined by the content and by nothing else
\* (distinct contents of the model get distinct digests)
md5sum(message) == <<"md5">> \o message

(***************************************************************************)
(* Steps and message contents                                              *)
(*                                                                         *)
(* A message's content is a Python string. The model keeps, next to the   *)
(* string's kind (fmt), what json_load makes of it: fmt "text" is text     *)
(* that does not start with '{' or '[', "json" is the dump of a list of    *)
(* step dicts (isList) or of one step dict, "badjson" starts with '{' but  *)
(* does not parse, and "empty" is the empty string.                        *)
(***************************************************************************)
Thought == [step_name |-> <<"thought">>, raw_text |-> <<"ok">>]
ThoughtBig == [step_name |-> <<"thought">>, raw_text |-> <<"BIG2">>]
ActionSmall == [step_name |-> <<"action">>, raw_text |-> <<"ok">>]
ActionBig == [step_name |-> <<"action">>, raw_text |-> <<"BIG1">>]
ObsBigNote == [step_name |-> <<"observation">>, raw_text |-> <<"BIG2">>, note |-> <<"n">>]
TaskStep == [step_name |-> <<"task">>, raw_text |-> <<"do">>]

TextContent(t) == [fmt |-> "text", isList |-> FALSE, steps |-> <<>>, text |-> t]
EmptyContent == [fmt |-> "empty", isList |-> FALSE, steps |-> <<>>, text |-> <<>>]
BadJsonContent == [fmt |-> "badjson", isList |-> FALSE, steps |-> <<>>, text |-> <<"{", "BIG1">>]

\* json_tool.json_dump(obj) of a list of steps / of one step
json_dump(steps) == [fmt |-> "json", isList |-> TRUE, steps |-> steps, text |-> <<>>]
json_dump_one(step) == [fmt |-> "json", isList |-> FALSE, steps |-> <<step>>, text |-> <<>>]

\* Python values handed to add_*_message: a list of steps, one step, or a str
PyList(steps) == [py |-> "list", steps |-> steps, str |-> EmptyContent]
PyDict(step) == [py |-> "dict", steps |-> <<step>>, str |-> EmptyContent]
PyStr(content) == [py |-> "str", steps |-> <<>>, str |-> content]

\* json_tool.to_json_str: structured content is dumped, a str is kept
to_json_str(obj) ==
    CASE obj.py = "list" -> json_dump(obj.steps)
      [] obj.py = "dict" -> json_dump_one(obj.steps[1])
      [] OTHER -> obj.str

\* PromptBase.hook_format_content
hook_format_content(content) == to_json_str(content)

RECURSIVE StepsLen(_)
StepsLen(steps) ==
    IF steps = <<>> THEN 0 ELSE DictStrLen(Head(steps)) + StepsLen(Tail(steps))

\* len(content)
ContentLen(c) == IF c.fmt = "json" THEN StepsLen(c.steps) ELSE StrLen(c.text)

(***************************************************************************)
(* ChatHistoryMessageData and the message storage                          *)
(***************************************************************************)
\* a session-dependent id: what a keyed-by-session bug would compute
ChatHistoryMessageData_BySession(message, msg_id, session_id) ==
    [msg_id |-> IF msg_id = None /\ message # <<>>
                THEN md5sum(<<session_id>> \o message) ELSE msg_id,
     session_id |-> session_id,
     message |-> message,
     msg_size |-> StrLen(message)]

\* ChatHistoryMessageData.__init__
ChatHistoryMessageData(message, msg_id, session_id) ==
    [msg_id |-> IF msg_id = None /\ message # <<>> THEN md5sum(message) ELSE msg_id,
     session_id |-> session_id,
     message |-> message,
     msg_size |-> StrLen(message)]

\* an empty storage: the message rows and the session-to-message mapping rows
EmptyStore == [rows |-> <<>>, maps |-> <<>>]

HasRow(store, msg_id) == \E k \in 1..Len(store.rows) : store.rows[k].msg_id = msg_id

HasMap(store, session_id, msg_id) ==
    \E k \in 1..Len(store.maps) :
        store.maps[k] = [session_id |-> session_id, msg_id |-> msg_id]

\* MessageStorageBase.add_message: the row is added unless its msg_id is
\* stored already; the session mapping is added unless it is present
add_message(store, msg) ==
    [rows |-> IF HasRow(store, msg.msg_id) THEN store.rows
              ELSE Append(store.rows, [msg_id |-> msg.msg_id, message |-> msg.message]),
     maps |-> IF HasMap(store, msg.session_id, msg.msg_id) THEN store.maps
              ELSE Append(store.maps, [session_id |-> msg.session_id, msg_id |-> msg.msg_id])]

\* MessageStorageBase.get_message: the stored message text, or None
get_message(store, msg_id) ==
    IF HasRow(store, msg_id)
    THEN (CHOOSE r \in {store.rows[k] : k \in 1..Len(store.rows)} : r.msg_id = msg_id).message
    ELSE None

(***************************************************************************)
(* ContextManager: the archiver                                            *)
(*                                                                         *)
(* add_message may raise (a storage error). failAt numbers the             *)
(* add_message call of one pass that raises; 0 means none does.            *)
(***************************************************************************)
\* the step that replaces an archived one
ArchiveStep(msg_id) ==
    [step_name |-> <<"archive">>, raw_text |-> prefix_raw_text_retrieve_msg \o msg_id]

\* the text _link_msg_id stores for a step
LinkedText(content_dict) ==
    IF Cardinality(DOMAIN content_dict) = 2 /\ "raw_text" \in DOMAIN content_dict
    THEN content_dict["raw_text"]
    ELSE json_dump_dict(content_dict)

\* a pass that replaces the step before the record is stored
_link_msg_id_ReplaceFirst(content_dict, store, session_id, fails) ==
    LET msg_obj == ChatHistoryMessageData(LinkedText(content_dict), None, session_id)
    IN  [content_dict |-> ArchiveStep(msg_obj.msg_id),
         store |-> IF fails THEN store ELSE add_message(store, msg_obj),
         raised |-> FALSE]

\* ContextManager._link_msg_id: store the record, then replace the step
_link_msg_id(content_dict, store, session_id, fails) ==
    LET msg_obj == ChatHistoryMessageData(LinkedText(content_dict), None, session_id)
    IN  IF fails
        THEN [content_dict |-> content_dict, store |-> store, raised |-> TRUE]
        ELSE [content_dict |-> ArchiveStep(msg_obj.msg_id),
              store |-> add_message(store, msg_obj),
              raised |-> FALSE]

\* a selection by size alone, whatever the name of the step
IsAttentionStep_AnyName(content_dict, size) ==
    /\ "step_name" \in DOMAIN content_dict
    /\ DictStrLen(content_dict) > size

\* a size check that also selects a step of exactly max_size
IsAttentionStep_AtSize(content_dict, size) ==
    /\ "step_name" \in DOMAIN content_dict
    /\ content_dict["step_name"] \in attention_step_names
    /\ DictStrLen(content_dict) >= size

\* the three checks of link_messages that select a step for archiving
IsAttentionStep(content_dict, size) ==
    /\ "step_name" \in DOMAIN content_dict
    /\ content_dict["step_name"] \in attention_step_names
    /\ DictStrLen(content_dict) > size

RECURSIVE LinkSteps(_, _, _)
\* the inner loop of link_messages over the steps of one message;
\* acc = [steps, store, calls, changed, raised], p = [session_id, failAt, max_size]
LinkSteps(acc, j, p) ==
    IF acc.raised \/ j > Len(acc.steps) THEN acc
    ELSE IF ~IsAttentionStep(acc.steps[j], p.max_size) THEN LinkSteps(acc, j + 1, p)
    ELSE LET r == _link_msg_id(acc.steps[j], acc.store, p.session_id,
                               acc.calls + 1 = p.failAt)
         IN  LinkSteps([steps |-> [acc.steps EXCEPT ![j] = r.content_dict],
                        store |-> r.store,
                        calls |-> acc.calls + 1,
                        changed |-> acc.changed \/ ~r.raised,
                        raised |-> r.raised], j + 1, p)

\* the role test at the head of the loop body
IsIgnoredMessage(msg) ==
    /\ msg.role \in ignored_roles
    /\ ~(msg.role = ROLE_USER /\ "tool_call_id" \in DOMAIN msg)

\* a window that leaves out one message too few at the end
LinkWindow_ShortTail(n, first, last) ==
    {i \in 1..n : i > first /\ i <= (IF last < 0 THEN n + last + 1 ELSE last)}

\* the window messages[index_start:index_end], as 1-based indices
LinkWindow(n, first, last) ==
    {i \in 1..n : i > first /\ i <= (IF last < 0 THEN n + last ELSE last)}

RECURSIVE LinkFrom(_, _, _)
\* the outer loop of link_messages from message i on;
\* st = [messages, store, calls, raised], p as for LinkSteps plus the window
LinkFrom(st, i, p) ==
    IF st.raised \/ i > Len(st.messages) THEN st
    ELSE IF i \notin p.window THEN LinkFrom(st, i + 1, p)
    ELSE LET msg == st.messages[i]
             content == msg.content
         IN  IF IsIgnoredMessage(msg) THEN LinkFrom(st, i + 1, p)
             ELSE IF content.fmt = "empty"
                  \* content[0] of an empty string raises IndexError
                  THEN [st EXCEPT !.raised = TRUE]
             ELSE IF content.fmt # "json" \/ content.steps = <<>>
                  THEN LinkFrom(st, i + 1, p)
             ELSE LET r == LinkSteps([steps |-> content.steps, store |-> st.store,
                                      calls |-> st.calls, changed |-> FALSE,
                                      raised |-> FALSE], 1, p)
                  IN  LinkFrom(
                        [messages |->
                            IF r.changed /\ ~r.raised
                            THEN [st.messages EXCEPT ![i].content = json_dump(r.steps)]
                            ELSE st.messages,
                         store |-> r.store,
                         calls |-> r.calls,
                         raised |-> r.raised], i + 1, p)

\* ContextManager.link_messages(messages) on one storage
link_messages_on(msgs, store, session_id, failAt, first, last, size) ==
    LinkFrom([messages |-> msgs, store |-> store, calls |-> 0, raised |-> FALSE], 1,
             [session_id |-> session_id, failAt |-> failAt, max_size |-> size,
              window |-> LinkWindow(Len(msgs), first, last)])

\* ContextManager.link_messages with its default window and size
link_messages(msgs, store, session_id, failAt) ==
    link_messages_on(msgs, store, session_id, failAt, index_start, index_end, max_size)

(***************************************************************************)
(* ThresholdContextHistory                                                 *)
(***************************************************************************)
SLIM_MIN_LEN == 27

Max(a, b) == IF a >= b THEN a ELSE b

RECURSIVE CountTokens(_)
\* count_tokens(str(messages)): one token per character of content
CountTokens(msgs) ==
    IF msgs = <<>> THEN 0 ELSE ContentLen(Head(msgs).content) + CountTokens(Tail(msgs))

\* ThresholdContextHistory.exceed_ratio: token_count / token_max >= 0.8
exceed_ratio(token_count, token_max) == 10 * token_count >= 8 * token_max

\* a length test without the floor SLIM_MIN_LEN
exceed_msg_len_NoFloor(msg_len, slim_len) == msg_len >= slim_len

\* ThresholdContextHistory.exceed_msg_len
exceed_msg_len(msg_len, slim_len) == msg_len >= Max(SLIM_MIN_LEN, slim_len)

\* ThresholdContextHistory.is_exceeded
is_exceeded(msgs, c) ==
    \/ exceed_msg_len(Len(msgs), c.slim_len)
    \/ exceed_ratio(CountTokens(msgs), c.token_max)

(***************************************************************************)
(* PromptBase                                                              *)
(*                                                                         *)
(* A context is [messages, stores]; f gives, for every hook, the           *)
(* add_message call of its archival pass that raises (0: none).            *)
(***************************************************************************)
SystemMsg(content) == [role |-> ROLE_SYSTEM, content |-> content]
UserMsg(content) == [role |-> ROLE_USER, content |-> content]
AssistantMsg(content, tool_calls) ==
    [role |-> ROLE_ASSISTANT, content |-> content, tool_calls |-> tool_calls]
ToolMsg(content, tool_call_id) ==
    [role |-> ROLE_TOOL, content |-> content, tool_call_id |-> tool_call_id]
UserToolMsg(content) == [role |-> ROLE_USER, content |-> content, tool_call_id |-> None]

NoFail(n) == [h \in 1..n |-> 0]

RECURSIVE LinkAllHooks(_, _, _, _)
\* for hook in self.hooks_ctx_history: try hook.link_messages(self.messages)
LinkAllHooks(ctx, h, f, c) ==
    IF h > Len(ctx.stores) THEN ctx
    ELSE LET r == link_messages(ctx.messages, ctx.stores[h], c.session_id, f[h])
         IN  LinkAllHooks([messages |-> r.messages,
                           stores |-> [ctx.stores EXCEPT ![h] = r.store]], h + 1, f, c)

RECURSIVE StepsText(_)
StepsText(steps) ==
    IF steps = <<>> THEN <<>> ELSE json_dump_dict(Head(steps)) \o StepsText(Tail(steps))

\* json_tool.json_dump(last_message): the text of a message, with create_time
\* ahead of its keys unless the role is system
SessionText(last_message, now) ==
    (IF last_message.role # ROLE_SYSTEM THEN <<"create_time", now>> ELSE <<>>)
        \o <<"role", last_message.role, "content">>
        \o (IF last_message.content.fmt = "json"
            THEN StepsText(last_message.content.steps)
            ELSE last_message.content.text)

\* ContextManager.add_session_message(last_message): nothing without a
\* session id, else the record of the message text is added
add_session_message(store, last_message, session_id, now) ==
    IF session_id = NoSession THEN store
    ELSE add_message(store,
             ChatHistoryMessageData(SessionText(last_message, now), None, session_id))

\* get_current_date(include_ms=True) at an append: a reading that differs
\* from one append to a list to the next
get_current_date(msgs) == ToString(Len(msgs))

\* one call made on a history hook, or the threshold test (hook 0), with
\* the last message of the list at that moment
HistoryCall(op, h, msgs) == [op |-> op, hook |-> h, last |-> msgs[Len(msgs)]]

RECURSIVE AddSessionAllHooks_NoTry(_, _, _, _)
\* the loop without try/except: the exception of a hook ends the loop
AddSessionAllHooks_NoTry(st, h, g, c) ==
    IF h > Len(st.ctx.stores) THEN st
    ELSE LET called == Append(st.calls, HistoryCall("add_session_message", h, st.ctx.messages))
         IN  IF g[h] THEN [st EXCEPT !.calls = called]
             ELSE AddSessionAllHooks_NoTry(
                    [ctx |-> [st.ctx EXCEPT !.stores[h] =
                                add_session_message(@, st.ctx.messages[Len(st.ctx.messages)],
                                    c.session_id, get_current_date(st.ctx.messages))],
                     calls |-> called], h + 1, g, c)

RECURSIVE AddSessionAllHooks(_, _, _, _)
\* for hook in self.hooks_ctx_history: try hook.add_session_message(
\* self.messages[-1]) except Exception: logger.error(...); g[h] tells whether
\* the call on hook h raises
AddSessionAllHooks(st, h, g, c) ==
    IF h > Len(st.ctx.stores) THEN st
    ELSE AddSessionAllHooks(
            [ctx |-> IF g[h] THEN st.ctx
                     ELSE [st.ctx EXCEPT !.stores[h] =
                             add_session_message(@, st.ctx.messages[Len(st.ctx.messages)],
                                 c.session_id, get_current_date(st.ctx.messages))],
             calls |-> Append(st.calls,
                              HistoryCall("add_session_message", h, st.ctx.messages))],
            h + 1, g, c)

NoRaise(n) == [h \in 1..n |-> FALSE]

\* PromptBase.call_hooks_ctx_history with the calls it makes: the context it
\* leaves and the sequence of calls
call_hooks_ctx_history_on(ctx, g, f, c) ==
    IF ctx.stores = <<>> THEN [ctx |-> ctx, calls |-> <<>>]
    ELSE LET s1 == IF c.session_id # NoSession
                   THEN AddSessionAllHooks([ctx |-> ctx, calls |-> <<>>], 1, g, c)
                   ELSE [ctx |-> ctx, calls |-> <<>>]
             tested == Append(s1.calls, HistoryCall("is_exceeded", 0, s1.ctx.messages))
         IN  IF is_exceeded(s1.ctx.messages, c)
             THEN [ctx |-> LinkAllHooks(s1.ctx, 1, f, c),
                   calls |-> tested \o [h \in 1..Len(ctx.stores) |->
                                HistoryCall("link_messages", h, s1.ctx.messages)]]
             ELSE [ctx |-> s1.ctx, calls |-> tested]

\* PromptBase.call_hooks_ctx_history when no add_session_message call raises
call_hooks_ctx_history(ctx, f, c) ==
    call_hooks_ctx_history_on(ctx, NoRaise(Len(ctx.stores)), f, c).ctx

\* PromptBase.append_message
append_message(ctx, msg, f, c) ==
    call_hooks_ctx_history([ctx EXCEPT !.messages = Append(@, msg)], f, c)

\* a reset that puts the tool prompt before the environment message
reset_messages_ToolSecond(ctx, env, c) ==
    LET n == Len(ctx.stores)
        m0 == [ctx EXCEPT !.messages = <<>>]
        m1 == append_message(m0, SystemMsg(TextContent(c.system_prompt)), NoFail(n), c)
        m2 == IF c.tool_prompt # <<>>
              THEN append_message(m1, SystemMsg(TextContent(c.tool_prompt)), NoFail(n), c)
              ELSE m1
    IN  append_message(m2, SystemMsg(TextContent(env)), NoFail(n), c)

\* PromptBase.reset_messages
reset_messages(ctx, env, c) ==
    LET n == Len(ctx.stores)
        m0 == [ctx EXCEPT !.messages = <<>>]
        m1 == append_message(m0, SystemMsg(TextContent(c.system_prompt)), NoFail(n), c)
        m2 == append_message(m1, SystemMsg(TextContent(env)), NoFail(n), c)
    IN  IF c.tool_prompt # <<>>
        THEN append_message(m2, SystemMsg(TextContent(c.tool_prompt)), NoFail(n), c)
        ELSE m2

\* a refresh that writes the environment message at index 2
update_message_for_env_Third(ctx, env) ==
    IF Len(ctx.messages) >= 3
    THEN [ctx EXCEPT !.messages[3] = SystemMsg(TextContent(env))]
    ELSE ctx

\* PromptBase.update_message_for_env
update_message_for_env(ctx, env) ==
    [ctx EXCEPT !.messages[2] = SystemMsg(TextContent(env))]

\* PromptBase.add_user_message; content NoContent stands for None
NoContent == [py |-> "none", steps |-> <<>>, str |-> EmptyContent]

add_user_message(ctx, content, f, c) ==
    IF content = NoContent THEN ctx
    ELSE append_message(ctx, UserMsg(hook_format_content(content)), f, c)

\* PromptBase.add_assistant_message
add_assistant_message(ctx, content, tool_calls, f, c) ==
    IF content = NoContent THEN ctx
    ELSE append_message(ctx, AssistantMsg(hook_format_content(content), tool_calls), f, c)

\* PromptBase.get_tool_call_id
get_tool_call_id(msgs) ==
    LET last_message == msgs[Len(msgs)]
    IN  IF "tool_calls" \in DOMAIN last_message /\ last_message.tool_calls # <<>>
        THEN last_message.tool_calls[1].id
        ELSE None

\* PromptBase.add_tool_message
add_tool_message(ctx, content, f, c) ==
    IF content = NoContent THEN ctx
    ELSE LET tool_call_id == get_tool_call_id(ctx.messages)
             text == hook_format_content(content)
         IN  IF tool_call_id # None
             THEN append_message(ctx, ToolMsg(text, tool_call_id), f, c)
             ELSE append_message(ctx, UserToolMsg(text), f, c)

\* PromptBase.init_prompt (no hook is registered in hooks_after_init_prompt)
init_prompt(ctx, env, c) == reset_messages(ctx, env, c)

\* PromptBase.new_session (no hook is registered in hooks_after_new_session)
new_session(ctx, env, user_message, f, c) ==
    add_user_message(init_prompt(ctx, env, c), user_message, f, c)

(***************************************************************************)
(* LLMModel.chat: the retry loop of the gateway                            *)
(***************************************************************************)
\* retry_times = 10
retry_times_initial == 10
\* for i in range(100)
range_stop == 100
\* if i > 7: retry_times += 1
extend_above == 7
\* if err_count_map["InternalServerError"] > 5: rebuild_llm_models()
rebuild_above == 5
\* sec = (i % retry_times) * 5, raised to 3 and cut at 120
sec_factor == 5
sec_floor == 3
sec_ceiling == 120

\* the exceptions chat() catches
ErrorKinds ==
    {"JsonError", "RateLimitError", "TypeError", "InternalServerError",
     "APIConnectionError", "APITimeoutError", "PermissionDeniedError", "BadRequestError"}

\* the handlers that run if i > 7: retry_times += 1
ExtendingErrors ==
    {"RateLimitError", "InternalServerError", "APIConnectionError", "APITimeoutError"}

\* errors of a completion attempt that no except clause of chat() names
OtherErrors == {"AuthenticationError", "KeyboardInterrupt"}

\* the message of the exception raised after the loop
chat_failed == "chat to LLM is failed"

\* the locals of chat() before the call, the number of time.sleep calls made,
\* the exception it has raised, and the messages of the parameters built for
\* the last completion call
ChatIdle ==
    [pc |-> "idle", i |-> 0, retry_times |-> retry_times_initial, err_count_map |-> 0,
     calls |-> 0, sec |-> 0, sleeps |-> 0, rebuilds |-> 0, errors |-> "none", raised |-> "none",
     params |-> <<>>]

\* the locals of chat() on entry to the loop
chat_enter == [ChatIdle EXCEPT !.pc = "loop"]

\* a delay that is not raised to the floor
blocking_sec_NoFloor(i, retry_times) ==
    LET sec == (i % retry_times) * sec_factor
    IN  IF i = 0 THEN 0
        ELSE IF sec > sec_ceiling THEN sec_ceiling
        ELSE sec

\* time.sleep(sec) ahead of attempt i
blocking_sec(i, retry_times) ==
    LET sec == (i % retry_times) * sec_factor
    IN  IF i = 0 THEN 0
        ELSE IF sec <= 0 THEN sec_floor
        ELSE IF sec > sec_ceiling THEN sec_ceiling
        ELSE sec

\* the time.sleep calls made once the head of iteration i has run
slept(l) == IF l.i > 0 THEN l.sleeps + 1 ELSE l.sleeps

\* the single kind of error of all attempts so far, or "mixed"
ErrorsSoFar(l, e) ==
    IF l.calls = 0 \/ l.errors = e THEN e ELSE "mixed"

\* one iteration of the loop whose completion call returns a response
chat_attempt_returns(l) ==
    [l EXCEPT !.pc = "returned",
              !.calls = @ + 1,
              !.sec = blocking_sec(l.i, l.retry_times),
              !.sleeps = slept(l)]

\* handlers that all extend the limit
extend_retry_times_EveryError(l, e) ==
    IF l.i > extend_above THEN l.retry_times + 1 ELSE l.retry_times

\* retry_times once the except clause for e has run in iteration l.i
extend_retry_times(l, e) ==
    IF e \in ExtendingErrors /\ l.i > extend_above
    THEN l.retry_times + 1 ELSE l.retry_times

\* a loop that is left only by the break
loop_exhausted_NoRange(i, retry_times) == i > retry_times

\* the for statement has no iteration i: the range is used up, or the head of
\* iteration i breaks
loop_exhausted(i, retry_times) == i >= range_stop \/ i > retry_times

\* one iteration of the loop whose completion call raises e, the continue,
\* and the test at the head of the next iteration (or the end of the range),
\* after which raise Exception("chat to LLM is failed")
chat_attempt_raises(l, e) ==
    LET retry_times == extend_retry_times(l, e)
        count == IF e = "InternalServerError" THEN l.err_count_map + 1 ELSE l.err_count_map
        rebuild == e = "InternalServerError" /\ count > rebuild_above
        i == l.i + 1
        failed == loop_exhausted(i, retry_times)
    IN  [pc |-> IF failed THEN "failed" ELSE "loop",
         i |-> i,
         retry_times |-> retry_times,
         err_count_map |-> count,
         calls |-> l.calls + 1,
         sec |-> blocking_sec(l.i, l.retry_times),
         sleeps |-> slept(l),
         rebuilds |-> IF rebuild THEN l.rebuilds + 1 ELSE l.rebuilds,
         errors |-> ErrorsSoFar(l, e),
         raised |-> IF failed THEN chat_failed ELSE "none",
         params |-> l.params]

\* a try statement without the except clause for openai.BadRequestError
chat_attempt_NoBadRequest(l, e) ==
    IF e \in ErrorKinds \ {"BadRequestError"}
    THEN chat_attempt_raises(l, e)
    ELSE [l EXCEPT !.pc = "raised",
                   !.calls = @ + 1,
                   !.sec = blocking_sec(l.i, l.retry_times),
                   !.sleeps = slept(l),
                   !.errors = ErrorsSoFar(l, e),
                   !.raised = e]

\* one iteration of the loop whose completion call raises e: the except
\* clause that names e runs, and an error that no clause names propagates
chat_attempt(l, e) ==
    IF e \in ErrorKinds
    THEN chat_attempt_raises(l, e)
    ELSE [l EXCEPT !.pc = "raised",
                   !.calls = @ + 1,
                   !.sec = blocking_sec(l.i, l.retry_times),
                   !.sleeps = slept(l),
                   !.errors = ErrorsSoFar(l, e),
                   !.raised = e]

(***************************************************************************)
(* LLMModel.call_llm_model_by_stream: the response rebuilt from chunks     *)
(***************************************************************************)
\* format_tool.TOPSAILAI_STEP_ACTION
TOPSAILAI_STEP_ACTION == <<"topsailai.action">>

\* one entry of delta_obj.tool_calls
ToolCallDelta(index, id, name, arguments) ==
    [index |-> index, id |-> id, function |-> [name |-> name, arguments |-> arguments]]

\* chunk.choices[0].delta
Delta(content, tool_calls) == [content |-> content, tool_calls |-> tool_calls]

ChatCompletionMessageToolCall(id, name, arguments) ==
    [id |-> id, type |-> "function", function |-> [name |-> name, arguments |-> arguments]]

ChatCompletionMessage(content, tool_calls) ==
    [role |-> "assistant", content |-> content, tool_calls |-> tool_calls]

\* the entry placed for an index that is seen for the first time
place_object == [id |-> <<>>, function |-> [name |-> <<>>, arguments |-> <<>>]]

\* a reconstruction that keeps only the last arguments delta of an index
pass_value_Overwrite(full_tool_calls_dict, tool_call) ==
    LET placed == IF tool_call.index \in DOMAIN full_tool_calls_dict
                  THEN full_tool_calls_dict
                  ELSE full_tool_calls_dict @@ (tool_call.index :> place_object)
        curr_tool_call == placed[tool_call.index]
    IN  [placed EXCEPT ![tool_call.index] =
            [id |-> IF tool_call.id # <<>> THEN tool_call.id ELSE curr_tool_call.id,
             function |->
                [name |-> IF tool_call.function.name # <<>>
                          THEN tool_call.function.name ELSE curr_tool_call.function.name,
                 arguments |-> IF tool_call.function.arguments # <<>>
                               THEN tool_call.function.arguments
                               ELSE curr_tool_call.function.arguments]]]

\* the body of for tool_call in delta_obj.tool_calls or []
pass_value(full_tool_calls_dict, tool_call) ==
    LET placed == IF tool_call.index \in DOMAIN full_tool_calls_dict
                  THEN full_tool_calls_dict
                  ELSE full_tool_calls_dict @@ (tool_call.index :> place_object)
        curr_tool_call == placed[tool_call.index]
    IN  [placed EXCEPT ![tool_call.index] =
            [id |-> IF tool_call.id # <<>> THEN tool_call.id ELSE curr_tool_call.id,
             function |->
                [name |-> IF tool_call.function.name # <<>>
                          THEN tool_call.function.name ELSE curr_tool_call.function.name,
                 arguments |-> curr_tool_call.function.arguments
                                   \o tool_call.function.arguments]]]

RECURSIVE pass_values(_, _)
pass_values(full_tool_calls_dict, tool_calls) ==
    IF tool_calls = <<>> THEN full_tool_calls_dict
    ELSE pass_values(pass_value(full_tool_calls_dict, Head(tool_calls)), Tail(tool_calls))

\* the least key of a non-empty key set
FirstKey(keys) == CHOOSE k \in keys : \A other \in keys : k <= other

RECURSIVE generate_tool_calls(_, _)
\* for _index in sorted(full_tool_calls_dict.keys()): append the tool call
generate_tool_calls(full_tool_calls_dict, keys) ==
    IF keys = {} THEN <<>>
    ELSE LET tool_call == full_tool_calls_dict[FirstKey(keys)]
         IN  <<ChatCompletionMessageToolCall(tool_call.id, tool_call.function.name,
                                             tool_call.function.arguments)>>
             \o generate_tool_calls(full_tool_calls_dict, keys \ {FirstKey(keys)})

RECURSIVE lstrip(_)
lstrip(s) == IF s # <<>> /\ Head(s) = " " THEN lstrip(Tail(s)) ELSE s

RECURSIVE rstrip(_)
rstrip(s) == IF s # <<>> /\ s[Len(s)] = " " THEN rstrip(SubSeq(s, 1, Len(s) - 1)) ELSE s

\* str.strip()
strip(s) == rstrip(lstrip(s))

\* LLMModel.format_null_response_content
format_null_response_content(rsp_obj, rsp_content) ==
    IF rsp_content # <<>> THEN rsp_content
    ELSE IF rsp_obj.tool_calls # <<>> THEN TOPSAILAI_STEP_ACTION
    ELSE rsp_content

\* LLMModel.fix_response_content: the new response content
fix_response_content(rsp_obj, rsp_content) ==
    IF rsp_content = <<>> THEN format_null_response_content(rsp_obj, rsp_content)
    ELSE rsp_content

\* LLMModel.check_response_content: TRUE when it raises TypeError
check_response_content(rsp_obj, rsp_content) == strip(rsp_content) = <<>>

\* the locals of call_llm_model_by_stream before the call
StreamIdle ==
    [pc |-> "idle", chunks |-> <<>>, full_content |-> <<>>, full_tool_calls_dict |-> <<>>,
     response_ccm |-> ChatCompletionMessage(<<>>, <<>>), rsp_content |-> <<>>]

stream_enter == [StreamIdle EXCEPT !.pc = "chunks"]

\* one iteration of for chunk in response
stream_chunk(s, delta_obj) ==
    [s EXCEPT !.chunks = Append(@, delta_obj),
              !.full_content = @ \o delta_obj.content,
              !.full_tool_calls_dict = pass_values(@, delta_obj.tool_calls)]

\* the code after the loop over the chunks
stream_end(s) ==
    LET full_tool_calls_list ==
            generate_tool_calls(s.full_tool_calls_dict, DOMAIN s.full_tool_calls_dict)
        full_content == strip(s.full_content)
        response_ccm == ChatCompletionMessage(full_content, full_tool_calls_list)
        fixed == fix_response_content(response_ccm, full_content)
    IN  [s EXCEPT !.pc = IF check_response_content(response_ccm, fixed)
                         THEN "raised" ELSE "returned",
                  !.response_ccm = response_ccm,
                  !.rsp_content = fixed]

(***************************************************************************)
(* StepCallBase.get_tool_call_info                                         *)
(***************************************************************************)
\* rsp_msg_obj is None
NoneRsp == [none |-> TRUE]

\* the return value None
NoToolCallInfo == [none |-> TRUE]

\* ToolCallInfo with func_name and func_args set; a dict of arguments is the
\* set of its items
ToolCallInfo(func_name, func_args) == [func_name |-> func_name, func_args |-> func_args]

\* json_tool.json_load of an arguments text: "{" items "}"
IsJsonDict(t) ==
    /\ Len(t) >= 2
    /\ t[1] = "{"
    /\ t[Len(t)] = "}"
    /\ \A k \in 2..(Len(t) - 1) : t[k] \notin {"{", "}", "[", "]"}

json_load_dict(t) == {t[k] : k \in 2..(Len(t) - 1)}

\* json_tool.convert_code_block_to_json_str: the text inside a json fence
convert_code_block_to_json_str(t) ==
    IF Len(t) >= 2 /\ t[1] = "FENCE_JSON" /\ t[Len(t)] = "FENCE"
    THEN SubSeq(t, 2, Len(t) - 1)
    ELSE <<>>

\* the text of the first element of a JSON list, or the text itself
FirstElement(t) ==
    IF t # <<>> /\ t[1] = "[" /\ t[Len(t)] = "]"
    THEN LET close == CHOOSE k \in 1..Len(t) :
                          /\ t[k] \in {"}", "]"}
                          /\ \A j \in 1..(k - 1) : t[j] \notin {"}", "]"}
         IN  SubSeq(t, 2, IF t[close] = "}" THEN close ELSE close - 1)
    ELSE t

\* a tool call written as JSON text: {"tool_call": name, "tool_args": {item}}
EmbeddedCall(name, item) == <<"{", "tool_call", name, "tool_args", item, "}">>

\* json_load of a raw text: the dict it holds, as [ok, keys, tool_call, tool_args]
json_load_raw(t) ==
    LET e == FirstElement(t)
    IN  IF Len(e) = 6 /\ e[1] = "{" /\ e[6] = "}" /\ e[2] = "tool_call" /\ e[4] = "tool_args"
        THEN [ok |-> TRUE, keys |-> {"tool_call", "tool_args"},
              tool_call |-> IF e[3] = "" THEN <<>> ELSE <<e[3]>>, tool_args |-> {e[5]}]
        ELSE IF Len(e) >= 2 /\ e[1] = "{" /\ e[Len(e)] = "}"
        THEN [ok |-> TRUE, keys |-> {e[k] : k \in 2..(Len(e) - 1)},
              tool_call |-> <<>>, tool_args |-> {}]
        ELSE [ok |-> FALSE, keys |-> {}, tool_call |-> <<>>, tool_args |-> {}]

\* source 1: rsp_msg_obj.tool_calls[0]; [taken, result]
FromResponse(rsp_msg_obj) ==
    IF "tool_calls" \notin DOMAIN rsp_msg_obj \/ rsp_msg_obj.tool_calls = <<>>
    THEN [taken |-> FALSE, result |-> NoToolCallInfo]
    ELSE LET tool_call == rsp_msg_obj.tool_calls[1]
             func_name == tool_call.function.name
             arguments == tool_call.function.arguments
         IN  IF arguments # <<>> /\ ~IsJsonDict(arguments)
             THEN [taken |-> TRUE, result |-> NoToolCallInfo]
             ELSE IF func_name # <<>>
             THEN [taken |-> TRUE,
                   result |-> ToolCallInfo(func_name,
                                  IF arguments = <<>> THEN {} ELSE json_load_dict(arguments))]
             ELSE [taken |-> FALSE, result |-> NoToolCallInfo]

\* source 2: step['tool_call'] and step.get('tool_args')
FromStep(step) ==
    IF "tool_call" \in DOMAIN step /\ step["tool_call"] # <<>>
    THEN [taken |-> TRUE,
          result |-> ToolCallInfo(step["tool_call"],
                         IF "tool_args" \in DOMAIN step THEN step["tool_args"] ELSE {})]
    ELSE [taken |-> FALSE, result |-> NoToolCallInfo]

\* source 3: the tool call written inside step['raw_text']
FromRawText(step) ==
    IF "raw_text" \notin DOMAIN step THEN [taken |-> FALSE, result |-> NoToolCallInfo]
    ELSE LET block == convert_code_block_to_json_str(step["raw_text"])
             raw_text == IF block # <<>> THEN block ELSE step["raw_text"]
             raw_dict == json_load_raw(raw_text)
         IN  IF raw_dict.ok /\ "tool_call" \in raw_dict.keys /\ raw_dict.tool_call # <<>>
             THEN [taken |-> TRUE,
                   result |-> ToolCallInfo(raw_dict.tool_call, raw_dict.tool_args)]
             ELSE [taken |-> FALSE, result |-> NoToolCallInfo]

\* an extraction that consults the step dict before the response object
get_tool_call_info_StepFirst(step, rsp_msg_obj) ==
    IF FromStep(step).taken THEN FromStep(step).result
    ELSE IF FromRawText(step).taken THEN FromRawText(step).result
    ELSE FromResponse(rsp_msg_obj).result

\* StepCallBase.get_tool_call_info
get_tool_call_info(step, rsp_msg_obj) ==
    IF FromResponse(rsp_msg_obj).taken THEN FromResponse(rsp_msg_obj).result
    ELSE IF FromStep(step).taken THEN FromStep(step).result
    ELSE FromRawText(step).result

\* the argument and the result of one extraction, before the call
ExtractIdle ==
    [pc |-> "idle", step |-> [step_name |-> <<"action">>], rsp_msg_obj |-> NoneRsp,
     result |-> NoToolCallInfo]

(***************************************************************************)
(* AgentRun._run: the locals of the loop                                   *)
(***************************************************************************)
\* StepCallBase codes; CODE_NONE stands for self.code = None
CODE_TASK_FINAL == 0
CODE_STEP_FINAL == 1
CODE_TASK_FAILED == -1
CODE_NONE == 2

\* the return value of step_call(...): code, user_msg, tool_msg, result
StepCallBase(code, user_msg, tool_msg, result) ==
    [code |-> code, user_msg |-> user_msg, tool_msg |-> tool_msg, result |-> result]

AgentIdle ==
    [pc |-> "idle", response |-> <<>>, tool_calls |-> <<>>, index |-> 0, ctx_count |-> 0,
     ret |-> StepCallBase(CODE_NONE, NoContent, NoContent, None),
     result |-> None, chat_calls |-> 0,
     hooks_after_init_prompt |-> <<>>, hooks_after_new_session |-> <<>>, hook_calls |-> <<>>]

(***************************************************************************)
(* context/token.py: TokenStat, the thread that counts the tokens of the   *)
(* messages handed to add_msgs                                             *)
(*                                                                         *)
(* The record holds the attributes of the object, the position (pc), the   *)
(* locals buffer (local) and count_freq of run(), the clock (now), and     *)
(* what the model keeps to state properties: the number of add_msgs calls  *)
(* (submitted), the last batch handed in (last_msgs), the clock value of   *)
(* the last lifetime check (checked_at) and why the thread ended (quit).   *)
(***************************************************************************)
\* def __init__(self, llm_id, lifetime=86400)
lifetime_default == 86400
\* self._end_time = self._start_time + lifetime + 60
end_time_buffer == 60
\* max_idle_time = 600
max_idle_time == 600
\* if count_freq > 1000
check_after == 1000

\* count_tokens(buffer): one token per character
count_tokens(text) == StrLen(text)

\* TokenStat.__init__ at the clock value now
TokenStat(lifetime, now) ==
    [pc |-> "loop", flag_running |-> TRUE, buffer |-> None, local |-> None,
     msg_count |-> 0, current_count |-> 0, current_text_len |-> 0,
     total_count |-> 0, total_text_len |-> 0,
     _start_time |-> now,
     _end_time |-> IF lifetime > 0 THEN now + lifetime + end_time_buffer ELSE 0,
     _last_msg_time |-> 0,
     count_freq |-> 0, now |-> now, ticks |-> 0,
     submitted |-> 0, last_msgs |-> None, checked_at |-> -1, quit |-> "none",
     rlock |-> "free"]

\* self.tokenStat = TokenStat(id(self)) of a process started at clock 0
TokenStatIdle == TokenStat(lifetime_default, 0)

\* TokenStat.add_msgs, under the lock
add_msgs(t, msgs) ==
    [t EXCEPT !.buffer = msgs,
              !.msg_count = Len(msgs),
              !.current_count = 0,
              !.current_text_len = 0,
              !._last_msg_time = t.now,
              !.submitted = @ + 1,
              !.last_msgs = msgs]

\* a check() that ends the thread as soon as the lifetime is over
check_NoGrace(t) ==
    ~(t._end_time # 0 /\ t._end_time < t.now)

\* a check() that ends the thread once it has been idle, lifetime over or not
check_NoEnd(t) ==
    ~(t._end_time # 0 /\ t.now - t._last_msg_time > max_idle_time)

\* check() of run(): False ends the thread
check(t) ==
    ~(/\ t._end_time # 0
      /\ t._end_time < t.now
      /\ t.now - t._last_msg_time > max_idle_time)

\* one iteration of while self.flag_running up to and including
\* buffer = self.buffer, which is read without the lock
run_iteration(t) ==
    LET need_freq == t._end_time # 0
        due == need_freq /\ t.count_freq + 1 > check_after
        count_freq == IF ~need_freq THEN t.count_freq
                      ELSE IF due THEN 0 ELSE t.count_freq + 1
        counted == [t EXCEPT !.count_freq = count_freq,
                             !.checked_at = IF due THEN t.now ELSE @]
    IN  IF ~t.flag_running
        THEN [t EXCEPT !.pc = "exited", !.quit = "flag"]
        ELSE IF due /\ ~check(t)
        THEN [counted EXCEPT !.pc = "exited", !.quit = "lifetime"]
        ELSE IF t.buffer = None
        THEN counted
        ELSE [counted EXCEPT !.pc = "process", !.local = t.buffer]

\* the rest of the iteration: with self.rlock, the buffer is cleared and
\* the batch read before is counted
run_process(t) ==
    [t EXCEPT !.pc = "loop",
              !.buffer = None,
              !.local = None,
              !.current_text_len = StrLen(t.local),
              !.current_count = count_tokens(t.local),
              !.total_count = @ + count_tokens(t.local),
              !.total_text_len = @ + StrLen(t.local)]

\* every local of the gateway, the extraction and the agent loop is idle,
\* and the token statistics are as constructed
ProcIdle ==
    /\ chat = ChatIdle
    /\ stream = StreamIdle
    /\ extract = ExtractIdle
    /\ tokenStat = TokenStatIdle
    /\ agent = AgentIdle

(***************************************************************************)
(* The prompt context as a state machine                                   *)
(***************************************************************************)
\* ThresholdContextHistory.slim_len
slim_len_default == 43

EnvFacts == {<<"env", "t0">>, <<"env", "t1">>}

ToolCall1 == ChatCompletionMessageToolCall(<<"call_1">>, <<"cmd">>, <<"{", "}">>)

FillerContent == PyList(<<Thought>>)
MultiContent == PyList(<<Thought, ActionBig, ObsBigNote>>)

UserContents == {PyStr(TextContent(<<"hi">>)), PyList(<<ActionBig>>), NoContent}
AssistantChoices ==
    {<<FillerContent, <<>>>>, <<MultiContent, <<>>>>, <<FillerContent, <<ToolCall1>>>>,
     <<NoContent, <<>>>>}
ToolContents == {PyList(<<ObsBigNote>>), NoContent}

FillerMsg == AssistantMsg(hook_format_content(FillerContent), <<>>)

HeaderLen(c) == IF c.tool_prompt # <<>> THEN 3 ELSE 2

Ctx == [messages |-> messages, stores |-> stores]

\* the explored lists are bounded in length, and after the first FreeTurns
\* turns every message is the filler turn
Explored(ctx, c) ==
    /\ Len(ctx.messages) <= MaxMsgs
    /\ \A i \in 1..Len(ctx.messages) :
          i > HeaderLen(c) + FreeTurns => ctx.messages[i] = FillerMsg

\* an archival pass makes no add_message call on a list whose window is empty,
\* so only longer lists give the failing call a choice
FailChoices(n) ==
    IF LinkWindow(n, index_start, index_end) = {}
    THEN {NoFail(Len(stores))}
    ELSE [1..Len(stores) -> 0..MaxFail]

Configs(hooks) ==
    {[system_prompt |-> <<"SYS">>, tool_prompt |-> tp, session_id |-> NoSession,
      token_max |-> TokenMax, slim_len |-> slim_len_default, nhooks |-> n] :
        tp \in {<<>>, <<"TOOLS">>}, n \in hooks}

\* PromptBase.__init__ under one of the configurations cs
PromptNew(cs) ==
    \E c \in cs, env \in EnvFacts :
        LET ctx == reset_messages([messages |-> <<>>,
                                   stores |-> [h \in 1..c.nhooks |-> EmptyStore]], env, c)
        IN  /\ cfg = c
            /\ messages = ctx.messages
            /\ stores = ctx.stores

PromptInit(cs) == PromptNew(cs) /\ ProcIdle

CtxInit == PromptInit(Configs({1}))

SetCtx(ctx) ==
    \E new \in {ctx} :
        /\ Explored(new, cfg)
        /\ messages' = new.messages
        /\ stores' = new.stores
        /\ UNCHANGED <<cfg, procVars>>

ResetMessages ==
    \E env \in EnvFacts : SetCtx(reset_messages(Ctx, env, cfg))

NewSession ==
    \E env \in EnvFacts, u \in UserContents :
        SetCtx(new_session(Ctx, env, u, NoFail(Len(stores)), cfg))

AddUserMessage ==
    \E u \in UserContents, f \in FailChoices(Len(messages) + 1) :
        SetCtx(add_user_message(Ctx, u, f, cfg))

AddAssistantMessage ==
    \E a \in AssistantChoices, f \in FailChoices(Len(messages) + 1) :
        SetCtx(add_assistant_message(Ctx, a[1], a[2], f, cfg))

AddToolMessage ==
    \E o \in ToolContents, f \in FailChoices(Len(messages) + 1) :
        SetCtx(add_tool_message(Ctx, o, f, cfg))

UpdateMessageForEnv ==
    \E env \in EnvFacts : SetCtx(update_message_for_env(Ctx, env))

CtxNext ==
    \/ ResetMessages
    \/ NewSession
    \/ AddUserMessage
    \/ AddAssistantMessage
    \/ AddToolMessage
    \/ UpdateMessageForEnv

SpecCtx == CtxInit /\ [][CtxNext]_vars

(***************************************************************************)
(* Direct archival passes (ContextManager.__call__) on arbitrary lists     *)
(***************************************************************************)
LinkConfig ==
    [system_prompt |-> <<"SYS">>, tool_prompt |-> <<"TOOLS">>, session_id |-> "s1",
     token_max |-> TokenMax, slim_len |-> slim_len_default, nhooks |-> 1]

\* messages of every role, with oversized steps, unparsable and empty content
LinkKinds ==
    {SystemMsg(json_dump(<<ActionBig>>)),
     UserMsg(json_dump(<<ActionBig>>)),
     UserToolMsg(json_dump(<<ObsBigNote>>)),
     ToolMsg(json_dump_one(ActionBig), <<"call_1">>),
     AssistantMsg(json_dump(<<Thought, ActionBig, ObsBigNote>>), <<>>),
     AssistantMsg(json_dump(<<ThoughtBig, ActionSmall>>), <<>>),
     AssistantMsg(BadJsonContent, <<>>),
     AssistantMsg(EmptyContent, <<>>)}

\* a list of n filler turns with the messages a and b at the places p and q
\* and the message c second
ListWith(n, p, a, q, b, c) ==
    [i \in 1..n |-> IF i = q THEN b ELSE IF i = p THEN a ELSE IF i = 2 THEN c ELSE FillerMsg]

LinkInit ==
    \E n \in MinLinkLen..MaxMsgs :
        \E p \in 1..n, q \in 1..n, a \in LinkKinds, b \in LinkKinds,
           c \in {FillerMsg, UserToolMsg(json_dump(<<ObsBigNote>>))} :
            /\ p <= q
            /\ cfg = LinkConfig
            /\ messages = ListWith(n, p, a, q, b, c)
            /\ stores = <<EmptyStore>>
            /\ ProcIdle

\* ContextManager.__call__(messages): one archival pass
LinkPass ==
    \E failAt \in 0..MaxFail :
        \E r \in {link_messages(messages, stores[1], cfg.session_id, failAt)} :
            /\ messages' = r.messages
            /\ stores' = <<r.store>>
            /\ UNCHANGED <<cfg, procVars>>

\* PromptBase.append_message of one more turn on such a list
LinkAppend ==
    /\ Len(messages) < MaxMsgs
    /\ \E f \in FailChoices(Len(messages) + 1) :
          \E new \in {append_message(Ctx, FillerMsg, f, cfg)} :
              /\ messages' = new.messages
              /\ stores' = new.stores
              /\ UNCHANGED <<cfg, procVars>>

LinkNext == LinkPass

SpecLink == LinkInit /\ [][LinkNext]_vars

\* passes and appends on such lists
LinkAppendNext == LinkPass \/ LinkAppend

SpecLinkAppend == LinkInit /\ [][LinkAppendNext]_vars

(***************************************************************************)
(* The message storage on its own: add_message calls on records built by  *)
(* ChatHistoryMessageData from a text and a session id                     *)
(***************************************************************************)
StoreTexts == {<<"a">>, <<"b">>, <<"BIG1">>}
StoreSessions == {"s1", "s2"}

StoreInit ==
    /\ cfg = LinkConfig
    /\ messages = <<>>
    /\ stores = <<EmptyStore>>
    /\ ProcIdle

StoreAddMessage ==
    \E m \in StoreTexts, sid \in StoreSessions :
        /\ stores' = <<add_message(stores[1], ChatHistoryMessageData(m, None, sid))>>
        /\ UNCHANGED <<cfg, messages, procVars>>

StoreNext == StoreAddMessage

SpecStore == StoreInit /\ [][StoreNext]_vars

(***************************************************************************)
(* One chat() call under every sequence of attempt outcomes                *)
(***************************************************************************)
\* the prompt context while another component is exercised on its own
CtxIdle ==
    /\ cfg = LinkConfig
    /\ messages = <<>>
    /\ stores = <<EmptyStore>>

ChatInit ==
    /\ CtxIdle
    /\ chat = chat_enter
    /\ stream = StreamIdle
    /\ extract = ExtractIdle
    /\ tokenStat = TokenStatIdle
    /\ agent = AgentIdle

ChatAttemptReturns ==
    /\ chat.pc = "loop"
    /\ chat.calls < MaxChatCalls
    /\ chat' = chat_attempt_returns(chat)
    /\ UNCHANGED <<ctxVars, stream, extract, agent, tokenStat>>

ChatAttemptRaises ==
    /\ chat.pc = "loop"
    /\ chat.calls < MaxChatCalls
    /\ \E e \in ErrorKinds \cup OtherErrors : chat' = chat_attempt(chat, e)
    /\ UNCHANGED <<ctxVars, stream, extract, agent, tokenStat>>

ChatNext == ChatAttemptReturns \/ ChatAttemptRaises

SpecChat == ChatInit /\ [][ChatNext]_vars

\* chat() runs on: the thread that called it is scheduled until it returns
SpecChatFair == SpecChat /\ WF_vars(ChatNext)

(***************************************************************************)
(* One streamed completion under every sequence of chunks                  *)
(***************************************************************************)
\* the deltas a chunk can carry: the head of call 0, three pieces of its
\* arguments, the head of call 1 with a first piece, a second piece, a
\* second name for call 0, and a piece of content
StreamDeltas ==
    {Delta(<<>>, <<ToolCallDelta(0, <<"c0">>, <<"f">>, <<>>)>>),
     Delta(<<>>, <<ToolCallDelta(0, <<>>, <<>>, <<"{">>)>>),
     Delta(<<>>, <<ToolCallDelta(0, <<>>, <<>>, <<"a">>)>>),
     Delta(<<>>, <<ToolCallDelta(0, <<>>, <<>>, <<"}">>)>>),
     Delta(<<>>, <<ToolCallDelta(1, <<"c1">>, <<"g">>, <<"{">>)>>),
     Delta(<<>>, <<ToolCallDelta(1, <<>>, <<>>, <<"}">>)>>),
     Delta(<<>>, <<ToolCallDelta(0, <<>>, <<"h">>, <<>>)>>),
     Delta(<<"x">>, <<>>)}

StreamInit ==
    /\ CtxIdle
    /\ chat = ChatIdle
    /\ stream = stream_enter
    /\ extract = ExtractIdle
    /\ tokenStat = TokenStatIdle
    /\ agent = AgentIdle

StreamChunk ==
    /\ stream.pc = "chunks"
    /\ Len(stream.chunks) < MaxChunks
    /\ \E delta_obj \in StreamDeltas : stream' = stream_chunk(stream, delta_obj)
    /\ UNCHANGED <<ctxVars, chat, extract, agent, tokenStat>>

StreamEnd ==
    /\ stream.pc = "chunks"
    /\ stream' = stream_end(stream)
    /\ UNCHANGED <<ctxVars, chat, extract, agent, tokenStat>>

StreamNext == StreamChunk \/ StreamEnd

SpecStream == StreamInit /\ [][StreamNext]_vars

(***************************************************************************)
(* get_tool_call_info on steps and response objects of every shape         *)
(***************************************************************************)
ExtractToolCalls ==
    {<<>>,
     <<ChatCompletionMessageToolCall(<<"call_1">>, <<"cmd">>, <<"{", "x", "}">>)>>,
     <<ChatCompletionMessageToolCall(<<"call_1">>, <<"cmd">>, <<>>)>>,
     <<ChatCompletionMessageToolCall(<<"call_1">>, <<"cmd">>, <<"{", "x">>)>>,
     <<ChatCompletionMessageToolCall(<<"call_1">>, <<>>, <<"{", "x", "}">>)>>,
     <<ChatCompletionMessageToolCall(<<"call_1">>, <<"cmd">>, <<"{", "}">>),
       ChatCompletionMessageToolCall(<<"call_2">>, <<"cmd2">>, <<"{", "x", "}">>)>>}

ExtractResponses ==
    {NoneRsp} \cup {ChatCompletionMessage(TOPSAILAI_STEP_ACTION, t) : t \in ExtractToolCalls}

ExtractRawTexts ==
    {<<"ok">>,
     EmbeddedCall("raw_tool", "z"),
     EmbeddedCall("", "z"),
     <<"[">> \o EmbeddedCall("raw_tool", "z") \o <<",">> \o EmbeddedCall("other", "w") \o <<"]">>,
     <<"FENCE_JSON">> \o EmbeddedCall("raw_tool", "z") \o <<"FENCE">>,
     <<"{", "note", "}">>,
     <<"[", "]">>}

\* the step dicts: with or without raw_text, tool_call and tool_args
ExtractSteps ==
    {[step_name |-> <<"action">>]}
    \cup {[step_name |-> <<"action">>, raw_text |-> r] : r \in ExtractRawTexts}
    \cup {[step_name |-> <<"action">>, tool_call |-> n] : n \in {<<>>, <<"step_tool">>}}
    \cup {[step_name |-> <<"action">>, tool_call |-> n, tool_args |-> {"y"}] :
              n \in {<<>>, <<"step_tool">>}}
    \cup {[step_name |-> <<"action">>, raw_text |-> r, tool_call |-> n, tool_args |-> {"y"}] :
              r \in ExtractRawTexts, n \in {<<>>, <<"step_tool">>}}

ExtractInit ==
    /\ CtxIdle
    /\ chat = ChatIdle
    /\ stream = StreamIdle
    /\ agent = AgentIdle
    /\ tokenStat = TokenStatIdle
    /\ \E s \in ExtractSteps, r \in ExtractResponses :
          extract = [pc |-> "call", step |-> s, rsp_msg_obj |-> r, result |-> NoToolCallInfo]

GetToolCallInfo ==
    /\ extract.pc = "call"
    /\ extract' = [extract EXCEPT !.pc = "done",
                                  !.result = get_tool_call_info(extract.step,
                                                                extract.rsp_msg_obj)]
    /\ UNCHANGED <<ctxVars, chat, stream, agent, tokenStat>>

ExtractNext == GetToolCallInfo

SpecExtract == ExtractInit /\ [][ExtractNext]_vars

(***************************************************************************)
(* AgentBase.run / AgentRun._run: the agent loop                           *)
(***************************************************************************)
\* a loop that goes on to the next completion call whatever the turn appended
end_of_turn_NoGuard(a, ctx, env) ==
    [agent |-> [a EXCEPT !.pc = "chat"], ctx |-> update_message_for_env(ctx, env)]

\* the code after for i, step in enumerate(response)
end_of_turn(a, ctx, env) ==
    IF Len(ctx.messages) = a.ctx_count
    THEN [agent |-> [a EXCEPT !.pc = "returned", !.result = None], ctx |-> ctx]
    ELSE [agent |-> [a EXCEPT !.pc = "chat"], ctx |-> update_message_for_env(ctx, env)]

\* a loop that hands the result of a failed step to the caller
dispatch_step_FailedResult(a, ctx, ret, env, c) ==
    LET b == [a EXCEPT !.ret = ret]
    IN  IF ret.code = CODE_TASK_FINAL
        THEN [agent |-> [b EXCEPT !.pc = "returned", !.result = ret.result], ctx |-> ctx]
        ELSE IF ret.code = CODE_TASK_FAILED
        THEN [agent |-> [b EXCEPT !.pc = "returned", !.result = ret.result], ctx |-> ctx]
        ELSE IF ret.code = CODE_STEP_FINAL
        THEN LET nofail == NoFail(Len(ctx.stores))
                 with_user == add_user_message(ctx, ret.user_msg, nofail, c)
             IN  end_of_turn(b, add_tool_message(with_user, ret.tool_msg, nofail, c), env)
        ELSE IF a.index < Len(a.response)
        THEN [agent |-> [b EXCEPT !.index = @ + 1], ctx |-> ctx]
        ELSE end_of_turn(b, ctx, env)

\* a loop that appends the tool message ahead of the user message
dispatch_step_ToolFirst(a, ctx, ret, env, c) ==
    LET b == [a EXCEPT !.ret = ret]
    IN  IF ret.code = CODE_TASK_FINAL
        THEN [agent |-> [b EXCEPT !.pc = "returned", !.result = ret.result], ctx |-> ctx]
        ELSE IF ret.code = CODE_TASK_FAILED
        THEN [agent |-> [b EXCEPT !.pc = "returned", !.result = None], ctx |-> ctx]
        ELSE IF ret.code = CODE_STEP_FINAL
        THEN LET nofail == NoFail(Len(ctx.stores))
                 with_tool == add_tool_message(ctx, ret.tool_msg, nofail, c)
             IN  end_of_turn(b, add_user_message(with_tool, ret.user_msg, nofail, c), env)
        ELSE IF a.index < Len(a.response)
        THEN [agent |-> [b EXCEPT !.index = @ + 1], ctx |-> ctx]
        ELSE end_of_turn(b, ctx, env)

\* a loop without the break after a STEP_FINAL step
dispatch_step_NoBreak(a, ctx, ret, env, c) ==
    LET b == [a EXCEPT !.ret = ret]
        nofail == NoFail(Len(ctx.stores))
        added == IF ret.code = CODE_STEP_FINAL
                 THEN add_tool_message(add_user_message(ctx, ret.user_msg, nofail, c),
                                       ret.tool_msg, nofail, c)
                 ELSE ctx
    IN  IF ret.code = CODE_TASK_FINAL
        THEN [agent |-> [b EXCEPT !.pc = "returned", !.result = ret.result], ctx |-> ctx]
        ELSE IF ret.code = CODE_TASK_FAILED
        THEN [agent |-> [b EXCEPT !.pc = "returned", !.result = None], ctx |-> ctx]
        ELSE IF a.index < Len(a.response)
        THEN [agent |-> [b EXCEPT !.index = @ + 1], ctx |-> added]
        ELSE end_of_turn(b, added, env)

\* one iteration of for i, step in enumerate(response) with the value ret
\* returned by step_call, and the code after the loop when the loop ends
dispatch_step(a, ctx, ret, env, c) ==
    LET b == [a EXCEPT !.ret = ret]
    IN  IF ret.code = CODE_TASK_FINAL
        THEN [agent |-> [b EXCEPT !.pc = "returned", !.result = ret.result], ctx |-> ctx]
        ELSE IF ret.code = CODE_TASK_FAILED
        THEN [agent |-> [b EXCEPT !.pc = "returned", !.result = None], ctx |-> ctx]
        ELSE IF ret.code = CODE_STEP_FINAL
        THEN LET nofail == NoFail(Len(ctx.stores))
                 with_user == add_user_message(ctx, ret.user_msg, nofail, c)
             IN  end_of_turn(b, add_tool_message(with_user, ret.tool_msg, nofail, c), env)
        ELSE IF a.index < Len(a.response)
        THEN [agent |-> [b EXCEPT !.index = @ + 1], ctx |-> ctx]
        ELSE end_of_turn(b, ctx, env)

\* the top of while True: one chat() call that returns (rsp_obj, response)
chat_returns(a, ctx, response, tool_calls, c) ==
    IF response = <<>>
    THEN [agent |-> [a EXCEPT !.pc = "returned", !.result = None,
                              !.response = response, !.tool_calls = tool_calls,
                              !.chat_calls = @ + 1],
          ctx |-> ctx]
    ELSE LET new == add_assistant_message(ctx, PyList(response), tool_calls,
                                          NoFail(Len(ctx.stores)), c)
         IN  [agent |-> [a EXCEPT !.pc = "steps", !.response = response,
                                  !.tool_calls = tool_calls, !.index = 1,
                                  !.ctx_count = Len(new.messages),
                                  !.ret = AgentIdle.ret,
                                  !.chat_calls = @ + 1],
              ctx |-> new]

UserInputs == {<<>>, <<"do">>}

\* what chat() hands back: nothing, a thought, or steps with a tool call
AgentResponses ==
    {<<<<>>, <<>>>>,
     <<<<Thought>>, <<>>>>,
     <<<<Thought, ActionSmall>>, <<ToolCall1>>>>}

StepReturns ==
    {StepCallBase(CODE_TASK_FINAL, NoContent, NoContent, <<"answer">>),
     StepCallBase(CODE_TASK_FINAL, NoContent, NoContent, None),
     StepCallBase(CODE_TASK_FAILED, NoContent, NoContent, <<"why">>),
     StepCallBase(CODE_NONE, NoContent, NoContent, None)}
    \cup {StepCallBase(CODE_STEP_FINAL, u, t, None) :
              u \in {NoContent, PyStr(TextContent(<<"hi">>))},
              t \in {NoContent, PyList(<<ActionSmall>>)}}

AgentInit == CtxInit

SetAgent(r) ==
    \E new \in {r} :
        /\ agent' = new.agent
        /\ messages' = new.ctx.messages
        /\ stores' = new.ctx.stores
        /\ UNCHANGED <<cfg, chat, stream, extract, tokenStat>>

\* run(step_call, user_input) up to the loop
AgentRun ==
    /\ agent.pc = "idle"
    /\ \E user_input \in UserInputs, env \in EnvFacts :
          SetAgent([agent |-> [agent EXCEPT !.pc = "chat"],
                    ctx |-> IF user_input # <<>>
                            THEN new_session(Ctx, env,
                                     PyDict([step_name |-> <<"task">>, raw_text |-> user_input]),
                                     NoFail(Len(stores)), cfg)
                            ELSE Ctx])

\* chat() returns a response
AgentChatReturns ==
    /\ agent.pc = "chat"
    /\ agent.chat_calls < MaxTurns
    /\ \E r \in AgentResponses : SetAgent(chat_returns(agent, Ctx, r[1], r[2], cfg))

\* chat() raises Exception("chat to LLM is failed"): it leaves _run and run
AgentChatRaises ==
    /\ agent.pc = "chat"
    /\ agent.chat_calls < MaxTurns
    /\ SetAgent([agent |-> [agent EXCEPT !.pc = "raised", !.chat_calls = @ + 1],
                 ctx |-> Ctx])

AgentStep ==
    /\ agent.pc = "steps"
    /\ \E ret \in StepReturns, env \in EnvFacts :
          SetAgent(dispatch_step(agent, Ctx, ret, env, cfg))

AgentNext == AgentRun \/ AgentChatReturns \/ AgentChatRaises \/ AgentStep

SpecAgent == AgentInit /\ [][AgentNext]_vars

(***************************************************************************)
(* One task on which every turn makes progress and no step ends the task   *)
(***************************************************************************)
\* cli/agent_chats.py main: max_count = 100, decremented once per agent.run
max_count == 100

\* every response holds a tool call, every dispatch appends the tool result
RunawayChat ==
    /\ agent.pc = "chat"
    /\ agent.chat_calls < MaxRunawayCalls
    /\ SetAgent(chat_returns(agent, Ctx, <<Thought, ActionSmall>>, <<ToolCall1>>, cfg))

RunawayStep ==
    /\ agent.pc = "steps"
    /\ SetAgent(dispatch_step(agent, Ctx,
                    StepCallBase(CODE_STEP_FINAL, NoContent, PyList(<<ActionSmall>>), None),
                    <<"env", "t1">>, cfg))

\* an agent constructed without a tool prompt and without history stores
RunawayInit ==
    /\ PromptInit(Configs({0}))
    /\ cfg.tool_prompt = <<>>
    /\ messages[2].content.text = <<"env", "t0">>

RunawayNext == AgentRun \/ RunawayChat \/ RunawayStep

SpecRunaway == RunawayInit /\ [][RunawayNext]_vars

(***************************************************************************)
(* chat() over the non-streaming call_llm_model                            *)
(***************************************************************************)
\* LLMModel.call_llm_model after the completion call has returned message:
\* the value of fix_response_content is not assigned, and
\* check_response_content sees the content of the message
call_llm_model(message) ==
    LET full_content == message.content
        unused == fix_response_content(message, full_content)
    IN  [StreamIdle EXCEPT !.pc = IF check_response_content(message, full_content)
                                  THEN "raised" ELSE "returned",
                           !.full_content = full_content,
                           !.response_ccm = message,
                           !.rsp_content = full_content]

\* response.choices[0].message of a completion
CallMessages ==
    {ChatCompletionMessage(content, tool_calls) :
        content \in {<<>>, <<" ">>, <<"{", "}">>},
        tool_calls \in {<<>>, <<ToolCall1>>}}

CallInit == ChatInit

\* one iteration of the loop of chat(for_stream=False) whose completion
\* call returns a message
CallAttempt ==
    /\ chat.pc = "loop"
    /\ \E message \in CallMessages :
          /\ stream' = call_llm_model(message)
          /\ chat' = IF stream'.pc = "raised"
                     THEN chat_attempt(chat, "TypeError")
                     ELSE chat_attempt_returns(chat)
    /\ UNCHANGED <<ctxVars, extract, agent, tokenStat>>

\* one iteration whose completion call raises
CallAttemptRaises ==
    /\ chat.pc = "loop"
    /\ \E e \in (ErrorKinds \ {"TypeError"}) \cup OtherErrors : chat' = chat_attempt(chat, e)
    /\ stream' = StreamIdle
    /\ UNCHANGED <<ctxVars, extract, agent, tokenStat>>

CallNext == CallAttempt \/ CallAttemptRaises

SpecCall == CallInit /\ [][CallNext]_vars

(***************************************************************************)
(* LLMModel.build_parameters_for_chat: the messages sent to the provider   *)
(*                                                                         *)
(* A Python list is an object that a callee can change in place. The       *)
(* operators below return what both objects of a call hold when it ends:   *)
(* caller is the list the caller of chat() passed, params is the list put  *)
(* into the parameters of the completion call.                             *)
(***************************************************************************)
\* format_tool.TOPSAILAI_FORMAT_PREFIX
TOPSAILAI_FORMAT_PREFIX == "topsailai."

\* format_tool.to_topsailai_format(content, key_name, value_name): the dump
\* of a list of steps becomes one "topsailai.<step_name>" block per step
to_topsailai_format(content) ==
    IF content.fmt = "json" THEN [content EXCEPT !.fmt = "topsailai"] ELSE content

\* msg["content"][0] in ["[", "{"]
StartsWithBracket(content) == content.fmt \in {"json", "badjson"}

\* _format_messages raises IndexError at msg["content"][0] of an empty content
format_raises(msgs) ==
    /\ \E k \in 1..Len(msgs[1].content.text) : msgs[1].content.text[k] = TOPSAILAI_FORMAT_PREFIX
    /\ \E k \in 3..Len(msgs) : msgs[k].content.fmt = "empty"

\* _format_messages(messages, key_name, value_name), changing the list it is given
_format_messages(msgs) ==
    IF \E k \in 1..Len(msgs[1].content.text) : msgs[1].content.text[k] = TOPSAILAI_FORMAT_PREFIX
    THEN [k \in 1..Len(msgs) |->
            IF k >= 3 /\ StartsWithBracket(msgs[k].content)
            THEN [msgs[k] EXCEPT !.content = to_topsailai_format(@)]
            ELSE msgs[k]]
    ELSE msgs

\* build_parameters_for_chat without copy.deepcopy: _format_messages works on
\* the caller's list
build_parameters_for_chat_NoCopy(caller) ==
    LET formatted == _format_messages(caller)
    IN  [caller |-> formatted, params |-> formatted]

\* build_parameters_for_chat: messages = copy.deepcopy(messages), and
\* _format_messages works on the copy
build_parameters_for_chat(caller) ==
    LET copy == caller
    IN  [caller |-> caller, params |-> _format_messages(copy)]

\* a system prompt with and without the format marker
FormatPrompts == {<<"sys">>, <<"sys", TOPSAILAI_FORMAT_PREFIX>>}

\* the message lists a caller passes to chat()
FormatCallers ==
    {<<SystemMsg(TextContent(p)), SystemMsg(TextContent(<<"env", "t0">>)), UserMsg(u), a>> :
        p \in FormatPrompts,
        u \in {json_dump_one(TaskStep), TextContent(<<"do">>)},
        a \in {AssistantMsg(json_dump(<<Thought, ActionSmall>>), <<ToolCall1>>),
               AssistantMsg(EmptyContent, <<>>)}}

FormatInit ==
    /\ \E c \in Configs({0}) : c.tool_prompt = <<>> /\ cfg = c
    /\ messages \in FormatCallers
    /\ stores = <<>>
    /\ chat = chat_enter
    /\ stream = StreamIdle
    /\ extract = ExtractIdle
    /\ tokenStat = TokenStatIdle
    /\ agent = AgentIdle

\* one iteration of the loop of chat(): the parameters are built, and the
\* completion call returns, raises e, or is not reached
FormatAttempt ==
    /\ chat.pc = "loop"
    /\ \E new \in {build_parameters_for_chat(messages)} :
          /\ messages' = new.caller
          /\ IF format_raises(messages)
             THEN chat' = chat_attempt(chat, "IndexError")
             ELSE \/ chat' = [chat_attempt_returns(chat) EXCEPT !.params = new.params]
                  \/ \E e \in ErrorKinds \cup OtherErrors :
                        chat' = [chat_attempt(chat, e) EXCEPT !.params = new.params]
    /\ UNCHANGED <<cfg, stores, stream, extract, agent, tokenStat>>

FormatNext == FormatAttempt

SpecFormat == FormatInit /\ [][FormatNext]_vars

(***************************************************************************)
(* PromptBase.init_prompt / new_session with registered hooks              *)
(*                                                                         *)
(* A hook is a callable given the prompt object. The kinds below are what  *)
(* the hooks of cli/agent_chats.py do, with and without an exception at    *)
(* their end: "extend" is self.messages += messages_from_session.          *)
(***************************************************************************)
MaxHooks == 2

HookKinds == {"pass", "extend", "raise", "extend_raise"}

\* messages_from_session of the CLI
messages_from_session == <<FillerMsg>>

\* hook(self): what the hook leaves in the context
hook_call(ctx, hook) ==
    IF hook \in {"extend", "extend_raise"}
    THEN [ctx EXCEPT !.messages = @ \o messages_from_session]
    ELSE ctx

hook_raises(hook) == hook \in {"raise", "extend_raise"}

\* the record of one call: which list, which position, and how many messages
\* the hook was handed
HookCalled(ctx, list, k) == [list |-> list, index |-> k, seen |-> Len(ctx.messages)]

RECURSIVE call_hooks_NoTry(_, _, _, _, _)
\* the loop without try/except: the exception of a hook ends the loop
call_hooks_NoTry(ctx, calls, hooks, list, k) ==
    IF k > Len(hooks) THEN [ctx |-> ctx, calls |-> calls, raised |-> FALSE]
    ELSE IF hook_raises(hooks[k])
         THEN [ctx |-> hook_call(ctx, hooks[k]),
               calls |-> Append(calls, HookCalled(ctx, list, k)),
               raised |-> TRUE]
         ELSE call_hooks_NoTry(hook_call(ctx, hooks[k]),
                               Append(calls, HookCalled(ctx, list, k)), hooks, list, k + 1)

RECURSIVE call_hooks(_, _, _, _, _)
\* for hook in hooks: try: hook(self) except Exception: logger.error(...)
\* with the context, the calls made so far, and whether an exception leaves
\* the loop
call_hooks(ctx, calls, hooks, list, k) ==
    IF k > Len(hooks) THEN [ctx |-> ctx, calls |-> calls, raised |-> FALSE]
    ELSE call_hooks(hook_call(ctx, hooks[k]),
                    Append(calls, HookCalled(ctx, list, k)), hooks, list, k + 1)

\* PromptBase.init_prompt with the hooks of a
init_prompt_hooks(a, ctx, env, c) ==
    call_hooks(reset_messages(ctx, env, c), <<>>, a.hooks_after_init_prompt,
               "hooks_after_init_prompt", 1)

\* PromptBase.new_session with the hooks of a; an exception that leaves
\* init_prompt leaves new_session
new_session_hooks(a, ctx, env, user_message, f, c) ==
    LET s1 == init_prompt_hooks(a, ctx, env, c)
    IN  IF s1.raised THEN s1
        ELSE call_hooks(add_user_message(s1.ctx, user_message, f, c), s1.calls,
                        a.hooks_after_new_session, "hooks_after_new_session", 1)

\* the lists of at most MaxHooks hooks
HookLists == UNION {[1..n -> HookKinds] : n \in 0..MaxHooks}

\* the first user message of the session
SessionTask == PyDict(TaskStep)

SessionInit ==
    /\ PromptNew(Configs({1}))
    /\ chat = ChatIdle
    /\ stream = StreamIdle
    /\ extract = ExtractIdle
    /\ tokenStat = TokenStatIdle
    /\ \E i \in HookLists, n \in HookLists :
          agent = [AgentIdle EXCEPT !.hooks_after_init_prompt = i,
                                    !.hooks_after_new_session = n]

\* run(step_call, user_input) up to the loop: new_session(user_input)
SessionRun ==
    /\ agent.pc = "idle"
    /\ \E env \in EnvFacts :
          \E s \in {new_session_hooks(agent, Ctx, env, SessionTask, NoFail(Len(stores)), cfg)} :
              SetAgent([agent |-> [agent EXCEPT !.pc = IF s.raised THEN "raised" ELSE "chat",
                                                !.hook_calls = s.calls],
                        ctx |-> s.ctx])

SessionNext == SessionRun

SpecSession == SessionInit /\ [][SessionNext]_vars

(***************************************************************************)
(* Appends on a context with two history stores                            *)
(***************************************************************************)
\* get_managers_by_env() returns two managers
FanOutConfig == [LinkConfig EXCEPT !.nhooks = 2]

FanOutInit ==
    \E n \in MinLinkLen..(MaxMsgs - 1) :
        \E p \in 1..n, q \in 1..n, a \in LinkKinds, b \in LinkKinds :
            /\ p <= q
            /\ cfg = FanOutConfig
            /\ messages = ListWith(n, p, a, q, b, FillerMsg)
            /\ stores = <<EmptyStore, EmptyStore>>
            /\ ProcIdle

\* PromptBase.append_message of one more turn: the append and the archival
\* pass of every manager
FanOutAppend ==
    /\ Len(messages) < MaxMsgs
    /\ \E f \in FailChoices(Len(messages) + 1) :
          \E new \in {append_message(Ctx, FillerMsg, f, cfg)} :
              /\ messages' = new.messages
              /\ stores' = new.stores
              /\ UNCHANGED <<cfg, procVars>>

FanOutNext == FanOutAppend

SpecFanOut == FanOutInit /\ [][FanOutNext]_vars

(***************************************************************************)
(* The TokenStat thread against add_msgs calls and the clock               *)
(***************************************************************************)
MaxBatches == 2
MaxTicks == 3

\* the message batches handed to add_msgs
TokenBatches == {<<"m1">>, <<"m1", "m2">>}

\* the seconds by which the clock moves between two steps
TimeSteps == {300, 700, lifetime_default}

TokenInit ==
    /\ CtxIdle
    /\ chat = ChatIdle
    /\ stream = StreamIdle
    /\ extract = ExtractIdle
    /\ agent = AgentIdle
    /\ \E lifetime \in {0, lifetime_default} : tokenStat = TokenStat(lifetime, 0)

\* call_llm_model / call_llm_model_by_stream: self.tokenStat.add_msgs(messages)
TokenAddMsgs ==
    /\ tokenStat.submitted < MaxBatches
    /\ \E msgs \in TokenBatches : tokenStat' = add_msgs(tokenStat, msgs)
    /\ UNCHANGED <<ctxVars, chat, stream, extract, agent>>

\* the iterations that find the buffer empty and make no lifetime check, up
\* to the one before the next check
TokenSpin ==
    /\ tokenStat.pc = "loop"
    /\ tokenStat.flag_running
    /\ tokenStat.buffer = None
    /\ tokenStat._end_time # 0
    /\ tokenStat.count_freq < check_after
    /\ tokenStat' = [tokenStat EXCEPT !.count_freq = check_after]
    /\ UNCHANGED <<ctxVars, chat, stream, extract, agent>>

\* an iteration that ends the thread, makes the lifetime check or reads a batch
TokenIteration ==
    /\ tokenStat.pc = "loop"
    /\ \/ ~tokenStat.flag_running
       \/ tokenStat.buffer # None
       \/ tokenStat.count_freq >= check_after
    /\ tokenStat' = run_iteration(tokenStat)
    /\ UNCHANGED <<ctxVars, chat, stream, extract, agent>>

TokenProcess ==
    /\ tokenStat.pc = "process"
    /\ tokenStat' = run_process(tokenStat)
    /\ UNCHANGED <<ctxVars, chat, stream, extract, agent>>

\* time passes
TokenTick ==
    /\ tokenStat.ticks < MaxTicks
    /\ \E d \in TimeSteps :
          tokenStat' = [tokenStat EXCEPT !.now = @ + d, !.ticks = @ + 1]
    /\ UNCHANGED <<ctxVars, chat, stream, extract, agent>>

\* LLMModel.__del__: self.tokenStat.flag_running = False
TokenDel ==
    /\ tokenStat.flag_running
    /\ tokenStat' = [tokenStat EXCEPT !.flag_running = FALSE]
    /\ UNCHANGED <<ctxVars, chat, stream, extract, agent>>

TokenNext ==
    TokenAddMsgs \/ TokenSpin \/ TokenIteration \/ TokenProcess \/ TokenTick \/ TokenDel

SpecToken == TokenInit /\ [][TokenNext]_vars

(***************************************************************************)
(* ThresholdContextHistory.is_exceeded over lists of every length          *)
(***************************************************************************)
MaxThresholdLen == 31

\* CONTEXT_MESSAGES_SLIM_THRESHOLD_LENGTH below, at and above SLIM_MIN_LEN,
\* and MAX_TOKENS for which five filler turns are exactly, and not quite,
\* 0.8 of the maximum
ThresholdConfigs ==
    {[LinkConfig EXCEPT !.slim_len = s, !.token_max = t, !.session_id = NoSession] :
        s \in {10, SLIM_MIN_LEN, 30}, t \in {400, 410, TokenMax}}

\* a message without content, which has no tokens
EmptyMsg == AssistantMsg(EmptyContent, <<>>)

ThresholdInit ==
    /\ cfg \in ThresholdConfigs
    /\ \E n \in 0..(SLIM_MIN_LEN - 2), m \in {EmptyMsg, FillerMsg} :
          messages = [i \in 1..n |-> m]
    /\ stores = <<EmptyStore>>
    /\ ProcIdle

\* PromptBase.append_message: the append and the threshold test of
\* call_hooks_ctx_history
ThresholdAppend ==
    /\ Len(messages) < MaxThresholdLen
    /\ \E m \in {EmptyMsg, FillerMsg} :
          \E new \in {append_message(Ctx, m, NoFail(Len(stores)), cfg)} :
              /\ m = EmptyMsg => \A i \in 1..Len(messages) : messages[i] = EmptyMsg
              /\ messages' = new.messages
              /\ stores' = new.stores
              /\ UNCHANGED <<cfg, procVars>>

ThresholdNext == ThresholdAppend

SpecThreshold == ThresholdInit /\ [][ThresholdNext]_vars

(***************************************************************************)
(* agent_types/tool.py: get_tool_func over registries and requested names  *)
(***************************************************************************)
\* str.replace(old, new) on a name: a name is the sequence of its parts, the
\* separators and blanks being parts of their own
replace(s, old, new) == [k \in 1..Len(s) |-> IF s[k] = old THEN new ELSE s[k]]

\* a dict as the sequence of its items in insertion order
ToolItem(name, func) == [name |-> name, func |-> func]

\* the keys the loop of get_tool_func accepts for new_tool_name
NormalisedHits(tool_map, new_tool_name) ==
    {k \in 1..Len(tool_map) : strip(replace(tool_map[k].name, ".", "-")) = new_tool_name}

get_tool_func_NormalisedFirst(tool_map, tool_name) ==
    IF tool_map = <<>> \/ tool_name = <<>> THEN None
    ELSE LET name == strip(tool_name)
             hits == NormalisedHits(tool_map, replace(name, ".", "-"))
         IN IF name = <<>> THEN None
            ELSE IF hits = {} THEN None
            ELSE tool_map[CHOOSE k \in hits : \A j \in hits : k <= j].func

get_tool_func(tool_map, tool_name) ==
    IF tool_map = <<>> \/ tool_name = <<>> THEN None
    ELSE LET name == strip(tool_name)
             hits == NormalisedHits(tool_map, replace(name, ".", "-"))
         IN IF name = <<>> THEN None
            ELSE IF \E k \in 1..Len(tool_map) : tool_map[k].name = name
            THEN tool_map[CHOOSE k \in 1..Len(tool_map) : tool_map[k].name = name].func
            ELSE IF hits = {} THEN None
            ELSE tool_map[CHOOSE k \in hits : \A j \in hits : k <= j].func

\* requested names: None or "", blanks only, dotted, dashed, padded, unknown
ToolNames ==
    {<<>>, <<" ">>, <<"fs", ".", "read">>, <<"fs", "-", "read">>,
     <<" ", "fs", ".", "read", " ">>, <<"fs", "-", "read", " ">>, <<"ls">>}

\* registry keys: dotted, dashed, padded, unrelated
ToolKeys ==
    {<<"fs", ".", "read">>, <<"fs", "-", "read">>, <<" ", "fs", ".", "read", " ">>, <<"cat">>}

\* the callables of a registry, in the order they were registered
Callables == <<<<"tool_a">>, <<"tool_b">>>>

\* None or {}, and every registry of one or two distinct keys
ToolMaps ==
    {<<>>} \cup {<<ToolItem(k, Callables[1])>> : k \in ToolKeys}
           \cup {<<ToolItem(p[1], Callables[1]), ToolItem(p[2], Callables[2])>> :
                   p \in {q \in ToolKeys \X ToolKeys : q[1] # q[2]}}

ToolInit ==
    /\ CtxIdle
    /\ chat = ChatIdle
    /\ stream = StreamIdle
    /\ extract = ExtractIdle
    /\ tokenStat = TokenStatIdle
    /\ \E tool_map \in ToolMaps, tool_name \in ToolNames :
          agent = [pc |-> "lookup", tool_map |-> tool_map, tool_name |-> tool_name,
                   func |-> None]

ToolLookup ==
    /\ agent.pc = "lookup"
    /\ agent' = [agent EXCEPT !.pc = "done",
                              !.func = get_tool_func(agent.tool_map, agent.tool_name)]
    /\ UNCHANGED <<ctxVars, chat, stream, extract, tokenStat>>

ToolNext == ToolLookup

SpecTool == ToolInit /\ [][ToolNext]_vars

(***************************************************************************)
(* Request construction for a context with a tool prompt                   *)
(***************************************************************************)
\* the tool prompt a caller hands to PromptBase: plain text, or text that is
\* the JSON dump of a list of dicts
ToolPrompts ==
    {TextContent(<<"TOOLS">>),
     json_dump(<<[step_name |-> <<"tool">>, raw_text |-> <<"ok">>]>>)}

\* the message lists of a context whose header has three messages
FormatHeaderCallers ==
    {<<SystemMsg(TextContent(p)), SystemMsg(TextContent(<<"env", "t0">>)), SystemMsg(t),
       UserMsg(json_dump_one(TaskStep)),
       AssistantMsg(json_dump(<<Thought, ActionSmall>>), <<ToolCall1>>)>> :
        p \in FormatPrompts, t \in ToolPrompts}

FormatHeaderInit ==
    /\ \E c \in Configs({0}) : c.tool_prompt # <<>> /\ cfg = c
    /\ messages \in FormatHeaderCallers
    /\ stores = <<>>
    /\ chat = chat_enter
    /\ stream = StreamIdle
    /\ extract = ExtractIdle
    /\ tokenStat = TokenStatIdle
    /\ agent = AgentIdle

SpecFormatHeader == FormatHeaderInit /\ [][FormatNext]_vars

(***************************************************************************)
(* link_messages(messages, max_size=...) with sizes at the size of a step  *)
(***************************************************************************)
\* max_size: the default, the size of the small action step, and one less
LinkSizes == {max_size, DictStrLen(ActionSmall), DictStrLen(ActionSmall) - 1}

\* lists of 15 and 16 messages whose window is messages[3:4] and messages[3:5]
SizedInit ==
    /\ \E n \in {MaxMsgs - 1, MaxMsgs}, a \in LinkKinds, b \in LinkKinds :
          messages = ListWith(n, 4, a, 5, b, FillerMsg)
    /\ cfg = LinkConfig
    /\ stores = <<EmptyStore>>
    /\ chat = ChatIdle
    /\ stream = StreamIdle
    /\ extract = ExtractIdle
    /\ tokenStat = TokenStatIdle
    /\ agent = [pc |-> "idle", max_size |-> max_size, failAt |-> 0, raised |-> FALSE]

\* one call link_messages(messages, max_size=size); agent keeps the argument,
\* the add_message call that raised (0: none) and whether the call raised
SizedPass ==
    /\ agent.pc = "idle"
    /\ \E size \in LinkSizes, failAt \in 0..MaxFail :
          \E r \in {link_messages_on(messages, stores[1], cfg.session_id, failAt,
                                     index_start, index_end, size)} :
              /\ messages' = r.messages
              /\ stores' = <<r.store>>
              /\ agent' = [pc |-> "linked", max_size |-> size, failAt |-> failAt,
                            raised |-> r.raised]
    /\ UNCHANGED <<cfg, chat, stream, extract, tokenStat>>

SizedNext == SizedPass

SpecSized == SizedInit /\ [][SizedNext]_vars

(***************************************************************************)
(* Appends with a session id bound: the session record of every store,     *)
(* then the threshold test and the archival passes                         *)
(***************************************************************************)
\* the messages appended: an assistant turn, a system message and a tool
\* result with an oversized step
OfferedMsgs ==
    {FillerMsg, SystemMsg(TextContent(<<"SYS">>)),
     ToolMsg(json_dump_one(ActionBig), <<"call_1">>)}

OfferInit ==
    /\ \E k \in 1..2, sid \in {"s1", NoSession} :
          /\ cfg = [LinkConfig EXCEPT !.nhooks = k, !.session_id = sid]
          /\ stores = [h \in 1..k |-> EmptyStore]
          /\ agent = [pc |-> "idle", calls |-> <<>>, g |-> NoRaise(k), msg |-> FillerMsg]
    /\ \E n \in (MaxMsgs - 2)..(MaxMsgs - 1), a \in LinkKinds \cup {FillerMsg} :
          messages = ListWith(n, 4, a, 4, a, FillerMsg)
    /\ chat = ChatIdle
    /\ stream = StreamIdle
    /\ extract = ExtractIdle
    /\ tokenStat = TokenStatIdle

\* PromptBase.append_message(msg): the append, add_session_message on every
\* hook, the threshold test and the archival pass of every hook
OfferAppend ==
    /\ Len(messages) < MaxMsgs
    /\ \E msg \in OfferedMsgs, g \in [1..Len(stores) -> BOOLEAN],
          f \in FailChoices(Len(messages) + 1) :
          \E r \in {call_hooks_ctx_history_on([Ctx EXCEPT !.messages = Append(@, msg)],
                                              g, f, cfg)} :
              /\ messages' = r.ctx.messages
              /\ stores' = r.ctx.stores
              /\ agent' = [pc |-> "appended", calls |-> r.calls, g |-> g, msg |-> msg]
    /\ UNCHANGED <<cfg, chat, stream, extract, tokenStat>>

OfferNext == OfferAppend

SpecOffer == OfferInit /\ [][OfferNext]_vars

(***************************************************************************)
(* _format_response on lists, dicts and strings                            *)
(*                                                                         *)
(* A string is a sequence of tokens: blanks, line ends, the step prefix, a *)
(* step name, brackets, an object and null. A Python value is [py, value]. *)
(***************************************************************************)
\* longest response string, in tokens
MaxResponseLen == 3

Whitespace == {" ", "\n"}

ResponseTokens == Whitespace \cup {TOPSAILAI_FORMAT_PREFIX, "thought", "[", "]", "{}", "null"}

PyValue(py, value) == [py |-> py, value |-> value]

RECURSIVE str_lstrip(_)
str_lstrip(s) == IF s # <<>> /\ Head(s) \in Whitespace THEN str_lstrip(Tail(s)) ELSE s

RECURSIVE str_rstrip(_)
str_rstrip(s) ==
    IF s # <<>> /\ s[Len(s)] \in Whitespace THEN str_rstrip(SubSeq(s, 1, Len(s) - 1)) ELSE s

\* response.strip()
str_strip(s) == str_rstrip(str_lstrip(s))

\* response.startswith(PREFIX) or "\n" + PREFIX in response
HasFormatPrefix(s) ==
    \/ s # <<>> /\ s[1] = TOPSAILAI_FORMAT_PREFIX
    \/ \E i \in 1..(Len(s) - 1) : s[i] = "\n" /\ s[i + 1] = TOPSAILAI_FORMAT_PREFIX

RECURSIVE BlockText(_)
\* the text of a step block: up to the next prefix
BlockText(s) ==
    IF s = <<>> \/ Head(s) = TOPSAILAI_FORMAT_PREFIX THEN <<>>
    ELSE <<Head(s)>> \o BlockText(Tail(s))

RECURSIVE parse_topsailai_format(_)
\* format_dict_to_list(parse_topsailai_format(response), "step_name",
\* "raw_text"): one step per "topsailai.<name>" block, the text before the
\* first block dropped
parse_topsailai_format(s) ==
    IF s = <<>> THEN <<>>
    ELSE IF Head(s) # TOPSAILAI_FORMAT_PREFIX THEN parse_topsailai_format(Tail(s))
    ELSE LET name == IF Len(s) > 1 /\ s[2] \notin Whitespace \cup {TOPSAILAI_FORMAT_PREFIX}
                     THEN <<s[2]>> ELSE <<>>
             rest == SubSeq(s, 2 + Len(name), Len(s))
         IN  <<[step_name |-> name, raw_text |-> str_strip(BlockText(rest))]>>
                 \o parse_topsailai_format(rest)

\* json_tool.to_json_str(response) of a str: valid JSON is kept, an array
\* without its closing bracket gets it
fix_llm_mistakes_on_json(s) ==
    IF s # <<>> /\ s[1] = "[" /\ s[Len(s)] # "]" THEN s \o <<"]">> ELSE s

JsonAtoms == {"{}", "null"}

\* simplejson.loads(s): the value, or "invalid" (JSONDecodeError); blanks and
\* line ends between tokens do not count
simplejson_loads(s) ==
    LET t == SelectSeq(s, LAMBDA x : x \notin Whitespace)
    IN  IF t = <<"null">> THEN PyValue("None", <<>>)
        ELSE IF t = <<"{}">> THEN PyValue("dict", <<"{}">>)
        ELSE IF t = <<"[", "]">> THEN PyValue("list", <<>>)
        ELSE IF Len(t) = 3 /\ t[1] = "[" /\ t[3] = "]" /\ t[2] \in JsonAtoms
             THEN PyValue("list", <<t[2]>>)
        ELSE PyValue("invalid", <<>>)

\* _to_list(obj) of a list, None or a dict
_to_list(obj) ==
    IF obj.py = "list" THEN obj
    ELSE IF obj.py = "None" THEN obj
    ELSE PyValue("list", <<obj.value>>)

\* what a call leaves: the value returned or the exception raised, the parse
\* attempts made and how many of them were the prefixed step-format parse
FormatResult(kind, value, attempts, prefixed) ==
    [kind |-> kind, value |-> value, attempts |-> attempts, prefixed |-> prefixed]

RECURSIVE format_loop(_, _, _, _, _)
\* for count in range(3): ... ; raise JsonError("invalid json string")
format_loop(response, count, parse_raises, attempts, prefixed) ==
    IF count >= 3 THEN FormatResult("JsonError", <<>>, attempts, prefixed)
    ELSE IF HasFormatPrefix(response)
    THEN IF count > 0 THEN FormatResult("JsonError", <<>>, attempts, prefixed)
         ELSE IF parse_raises
              THEN format_loop(response, count + 1, parse_raises, attempts + 1, prefixed + 1)
              ELSE FormatResult("list", parse_topsailai_format(response),
                                attempts + 1, prefixed + 1)
    ELSE LET fixed == fix_llm_mistakes_on_json(response)
             loaded == simplejson_loads(fixed)
         IN  IF loaded.py = "invalid"
             THEN format_loop(fixed, count + 1, parse_raises, attempts + 1, prefixed)
             ELSE LET out == _to_list(loaded)
                  IN  FormatResult(out.py, out.value, attempts + 1, prefixed)

\* _format_response(response); parse_raises tells whether the step-format
\* parse of format_tool raises
_format_response(response, parse_raises) ==
    IF response.py \in {"list", "dict"}
    THEN LET out == _to_list(response) IN FormatResult(out.py, out.value, 0, 0)
    ELSE IF str_strip(response.value) = <<>> THEN FormatResult("JsonError", <<>>, 0, 0)
    ELSE format_loop(str_strip(response.value), 0, parse_raises, 0, 0)

ResponseStrings == UNION {[1..n -> ResponseTokens] : n \in 0..MaxResponseLen}

Responses ==
    {PyValue("str", s) : s \in ResponseStrings}
        \cup {PyValue("list", <<>>), PyValue("list", <<"{}">>), PyValue("list", <<"{}", "{}">>),
              PyValue("dict", <<"{}">>)}

FormatResponseInit ==
    /\ CtxIdle
    /\ chat = ChatIdle
    /\ stream = StreamIdle
    /\ extract = ExtractIdle
    /\ tokenStat = TokenStatIdle
    /\ \E response \in Responses, parse_raises \in BOOLEAN :
          agent = [pc |-> "idle", response |-> response, parse_raises |-> parse_raises,
                   result |-> FormatResult("none", <<>>, 0, 0)]

\* result = _format_response(rsp_content)
FormatResponse ==
    /\ agent.pc = "idle"
    /\ agent' = [agent EXCEPT !.pc = "done",
                              !.result = _format_response(agent.response, agent.parse_raises)]
    /\ UNCHANGED <<ctxVars, chat, stream, extract, tokenStat>>

FormatResponseNext == FormatResponse

SpecFormatResponse == FormatResponseInit /\ [][FormatResponseNext]_vars

(***************************************************************************)
(* The TokenStat thread with a lifetime, scheduled fairly against a clock  *)
(* that keeps moving                                                       *)
(***************************************************************************)
\* int(time.time()) when the tracker is constructed
EpochStart == 1000

\* the lifetime handed to TokenStat(llm_id, lifetime)
Lifetimes == {900}

TokenFairInit ==
    /\ CtxIdle
    /\ chat = ChatIdle
    /\ stream = StreamIdle
    /\ extract = ExtractIdle
    /\ agent = AgentIdle
    /\ \E lifetime \in Lifetimes : tokenStat = TokenStat(lifetime, EpochStart)

\* time passes while the thread runs; the clock is followed until the
\* lifetime is over and the tracker has been idle for more than 600 s
TokenClock ==
    /\ tokenStat.pc # "exited"
    /\ ~(/\ tokenStat.now > tokenStat._end_time
         /\ tokenStat.now - tokenStat._last_msg_time > max_idle_time)
    /\ \E d \in {300, 700} : tokenStat' = [tokenStat EXCEPT !.now = @ + d]
    /\ UNCHANGED <<ctxVars, chat, stream, extract, agent>>

\* the steps of the thread
TokenThread == TokenSpin \/ TokenIteration \/ TokenProcess

TokenFairNext == TokenAddMsgs \/ TokenThread \/ TokenClock \/ TokenDel

\* the daemon thread is scheduled and time passes
SpecTokenFair ==
    TokenFairInit /\ [][TokenFairNext]_vars /\ WF_vars(TokenThread) /\ WF_vars(TokenClock)

(***************************************************************************)
(* The TokenStat thread and the request path on the shared lock            *)
(*                                                                         *)
(* agent is the caller of call_llm_model: idle, or waiting for the lock    *)
(* with the call it is making.                                             *)
(***************************************************************************)
\* the calls call_llm_model makes on the tracker
RequestCalls ==
    {[name |-> "add_msgs", msgs |-> msgs] : msgs \in TokenBatches}
        \cup {[name |-> "output_token_stat", msgs |-> None]}

\* with self.rlock: entered by run(); the buffer is cleared first
run_acquire(t) == [t EXCEPT !.pc = "counting", !.rlock = "thread", !.buffer = None]

\* the rest of the block: the batch is counted, the totals are updated, and
\* the lock is released at the end of the block
run_count(t) == [run_process(t) EXCEPT !.rlock = "free"]

\* output_token_stat(): the counters read under the lock
output_token_stat(t) ==
    [total_count |-> t.total_count, current_count |-> t.current_count,
     total_text_len |-> t.total_text_len, current_text_len |-> t.current_text_len,
     msg_count |-> t.msg_count]

\* the call made once the caller has the lock
request_call(t, call) == IF call.name = "add_msgs" THEN add_msgs(t, call.msgs) ELSE t

RequestIdle ==
    [pc |-> "idle", call |-> [name |-> "none", msgs |-> None],
     info |-> output_token_stat(TokenStatIdle)]

LockInit ==
    /\ CtxIdle
    /\ chat = ChatIdle
    /\ stream = StreamIdle
    /\ extract = ExtractIdle
    /\ agent = RequestIdle
    /\ \E lifetime \in {0, lifetime_default} : tokenStat = TokenStat(lifetime, 0)

\* run(): with self.rlock is entered
LockAcquire ==
    /\ tokenStat.pc = "process"
    /\ tokenStat.rlock = "free"
    /\ tokenStat' = run_acquire(tokenStat)
    /\ UNCHANGED <<ctxVars, chat, stream, extract, agent>>

\* run(): the batch is counted and the block is left
LockCount ==
    /\ tokenStat.pc = "counting"
    /\ tokenStat' = run_count(tokenStat)
    /\ UNCHANGED <<ctxVars, chat, stream, extract, agent>>

\* call_llm_model: self.tokenStat.add_msgs(messages) or
\* self.tokenStat.output_token_stat(); the caller waits when the lock is held
RequestCall ==
    /\ agent.pc = "idle"
    /\ \E call \in RequestCalls :
          /\ call.name = "add_msgs" => tokenStat.submitted < MaxBatches
          /\ IF tokenStat.rlock = "free"
             THEN /\ tokenStat' = request_call(tokenStat, call)
                  /\ agent' = [pc |-> "idle", call |-> call,
                               info |-> IF call.name = "output_token_stat"
                                        THEN output_token_stat(tokenStat) ELSE agent.info]
             ELSE /\ agent' = [agent EXCEPT !.pc = "waiting", !.call = call]
                  /\ UNCHANGED tokenStat
    /\ UNCHANGED <<ctxVars, chat, stream, extract>>

\* the caller gets the lock the thread has released
RequestResume ==
    /\ agent.pc = "waiting"
    /\ tokenStat.rlock = "free"
    /\ tokenStat' = request_call(tokenStat, agent.call)
    /\ agent' = [agent EXCEPT !.pc = "idle",
                              !.info = IF agent.call.name = "output_token_stat"
                                       THEN output_token_stat(tokenStat) ELSE @]
    /\ UNCHANGED <<ctxVars, chat, stream, extract>>

LockNext ==
    \/ TokenSpin \/ TokenIteration \/ LockAcquire \/ LockCount
    \/ RequestCall \/ RequestResume \/ TokenTick \/ TokenDel

SpecTokenLock == LockInit /\ [][LockNext]_vars

(***************************************************************************)
(* chat() with registered content senders: what the senders receive over   *)
(* the attempts of one call                                                *)
(*                                                                         *)
(* agent holds for_stream, the contents handed to the senders so far       *)
(* (sent) and the content of the response chat() returned.                 *)
(***************************************************************************)
\* completion calls of one chat() that are explored
MaxSendCalls == 3

\* LLMModel.send_content(content): every sender receives the content
send_content(sent, content) == Append(sent, content)

\* what call_llm_model hands to the senders: the content, after the check
call_sends(sent, message) ==
    IF check_response_content(message, message.content) THEN sent
    ELSE send_content(sent, message.content)

RECURSIVE stream_sends(_, _)
\* what call_llm_model_by_stream hands to the senders: every delta content
\* that is not empty, as its chunk arrives
stream_sends(sent, chunks) ==
    IF chunks = <<>> THEN sent
    ELSE stream_sends(IF Head(chunks).content # <<>>
                      THEN send_content(sent, Head(chunks).content) ELSE sent,
                      Tail(chunks))

RECURSIVE stream_chunks(_, _)
\* for chunk in response
stream_chunks(s, chunks) ==
    IF chunks = <<>> THEN s ELSE stream_chunks(stream_chunk(s, Head(chunks)), Tail(chunks))

\* the contents of a completion: a JSON object, text that is no JSON, blank
\* and empty
SendContents == {<<"{}">>, <<"thought">>, <<" ">>, <<>>}

SendChunks == UNION {[1..n -> {Delta(c, <<>>) : c \in SendContents}] : n \in 0..2}

\* the end of an attempt whose completion call gave s: TypeError from the
\* check, JsonError from _format_response, or the return
attempt_end(l, s) ==
    IF s.pc = "raised" THEN chat_attempt(l, "TypeError")
    ELSE IF _format_response(PyValue("str", s.rsp_content), FALSE).kind = "JsonError"
    THEN chat_attempt(l, "JsonError")
    ELSE chat_attempt_returns(l)

SendInit ==
    /\ CtxIdle
    /\ chat = chat_enter
    /\ stream = StreamIdle
    /\ extract = ExtractIdle
    /\ tokenStat = TokenStatIdle
    /\ \E for_stream \in BOOLEAN :
          agent = [pc |-> "chat", for_stream |-> for_stream, sent |-> <<>>, returned |-> None]

\* one iteration of the loop of chat(for_stream=False)
SendAttempt ==
    /\ chat.pc = "loop"
    /\ chat.calls < MaxSendCalls
    /\ ~agent.for_stream
    /\ \E content \in SendContents :
          \E s \in {call_llm_model(ChatCompletionMessage(content, <<>>))} :
              /\ stream' = s
              /\ chat' = attempt_end(chat, s)
              /\ agent' = [agent EXCEPT
                              !.sent = call_sends(@, ChatCompletionMessage(content, <<>>)),
                              !.returned = IF chat'.pc = "returned" THEN s.rsp_content ELSE @]
    /\ UNCHANGED <<ctxVars, extract, tokenStat>>

\* one iteration of the loop of chat(for_stream=True); broken: the stream
\* raises APIConnectionError after the chunks
SendAttemptStream ==
    /\ chat.pc = "loop"
    /\ chat.calls < MaxSendCalls
    /\ agent.for_stream
    /\ \E chunks \in SendChunks, broken \in BOOLEAN :
          \E s \in {IF broken THEN stream_chunks(stream_enter, chunks)
                    ELSE stream_end(stream_chunks(stream_enter, chunks))} :
              /\ stream' = s
              /\ chat' = IF broken THEN chat_attempt(chat, "APIConnectionError")
                         ELSE attempt_end(chat, s)
              /\ agent' = [agent EXCEPT
                              !.sent = stream_sends(@, chunks),
                              !.returned = IF chat'.pc = "returned" THEN s.rsp_content ELSE @]
    /\ UNCHANGED <<ctxVars, extract, tokenStat>>

SendNext == SendAttempt \/ SendAttemptStream

SpecSend == SendInit /\ [][SendNext]_vars

(***************************************************************************)
(* context/ctx_safe.py: truncate_message                                   *)
(*                                                                         *)
(* A message is [type, len]: a str or bytes value of len characters; a     *)
(* slice of it is the value of its first characters.                       *)
(***************************************************************************)
MAX_MSG_SIZE == 3000
LARGE_MSG_SIZE == 13000

\* how far from the two sizes the explored lengths lie
TruncateMargin == 12

truncate_suffix == " ... (force to truncate)"

\* get_agent_name() of the calling thread
AgentNames == {"AgentWriter", "AgentReAct", "None"}

\* ctx_safe.is_need_truncate(msg_len) for the agent of the thread
is_need_truncate(msg_len, agent_name) ==
    IF agent_name = "AgentWriter" THEN msg_len > LARGE_MSG_SIZE
    ELSE msg_len >= MAX_MSG_SIZE

\* msg[:size]
Slice(msg, size) == [msg EXCEPT !.len = IF @ < size THEN @ ELSE size]

\* ctx_safe.truncate_message(msg): the slice and the suffix added to it
truncate_message(msg, agent_name) ==
    [body |-> Slice(msg, MAX_MSG_SIZE),
     suffix |-> IF is_need_truncate(msg.len, agent_name) THEN truncate_suffix ELSE ""]

TruncateLens ==
    {0} \cup ((MAX_MSG_SIZE - TruncateMargin)..(MAX_MSG_SIZE + TruncateMargin))
        \cup ((LARGE_MSG_SIZE - TruncateMargin)..(LARGE_MSG_SIZE + TruncateMargin))

TruncateInit ==
    /\ CtxIdle
    /\ chat = ChatIdle
    /\ stream = StreamIdle
    /\ extract = ExtractIdle
    /\ tokenStat = TokenStatIdle
    /\ \E name \in AgentNames, type \in {"str", "bytes"}, n \in TruncateLens :
          agent = [pc |-> "idle", agent_name |-> name, msg |-> [type |-> type, len |-> n],
                   result |-> [body |-> [type |-> type, len |-> 0], suffix |-> ""]]

\* result = truncate_message(msg)
Truncate ==
    /\ agent.pc = "idle"
    /\ agent' = [agent EXCEPT !.pc = "done",
                              !.result = truncate_message(agent.msg, agent.agent_name)]
    /\ UNCHANGED <<ctxVars, chat, stream, extract, tokenStat>>

TruncateNext == Truncate

SpecTruncate == TruncateInit /\ [][TruncateNext]_vars

(***************************************************************************)
(* Claims on the prompt context and the archiver                           *)
(***************************************************************************)
IsArchiveStep(step) ==
    /\ DOMAIN step = {"step_name", "raw_text"}
    /\ step["step_name"] = <<"archive">>

\* the msg_id an archive step refers to
ArchivedId(step) ==
    SubSeq(step["raw_text"], Len(prefix_raw_text_retrieve_msg) + 1, Len(step["raw_text"]))

HasArchiveStep(msg) ==
    \E j \in 1..Len(msg.content.steps) : IsArchiveStep(msg.content.steps[j])

\* an oversized attention step that is still inline
HasOversizedStep(msg) ==
    \E j \in 1..Len(msg.content.steps) : IsAttentionStep(msg.content.steps[j], max_size)

\* C1: messages[0] and messages[1] have role system, and a configured
\* non-empty tool prompt is the system message messages[2], after every
\* sequence of reset, new_session, appends, environment refreshes and the
\* archival passes the appends trigger.
C1_HeaderInvariant ==
    /\ Len(messages) >= 2
    /\ messages[1].role = ROLE_SYSTEM
    /\ messages[2].role = ROLE_SYSTEM
    /\ cfg.tool_prompt # <<>> =>
          /\ Len(messages) >= 3
          /\ messages[3] = SystemMsg(TextContent(cfg.tool_prompt))

\* a context with a tool prompt in which an archival pass has replaced a step
C1_Witness ==
    /\ cfg.tool_prompt # <<>>
    /\ messages[2].content.text = <<"env", "t1">>
    /\ \E i \in 1..Len(messages) : HasArchiveStep(messages[i])

\* C2: one archival pass with the default window leaves messages[0:3] and
\* the last 11 messages as they were and keeps the length of the list; on a
\* list of at most 14 messages it changes nothing.
C2_ArchivalWindow ==
    [][/\ Len(messages') = Len(messages)
       /\ \A i \in 1..Len(messages) :
             (i <= 3 \/ i > Len(messages) - 11) => messages'[i] = messages[i]
       /\ Len(messages) <= 14 => messages' = messages]_vars

\* a pass has archived a step inside the window of a list of more than 14
\* messages whose last 11 messages hold an eligible oversized step
C2_Witness ==
    /\ Len(messages) > 14
    /\ \E i \in 4..(Len(messages) - 11) : HasArchiveStep(messages[i])
    /\ \E k \in (Len(messages) - 10)..Len(messages) :
          /\ ~IsIgnoredMessage(messages[k])
          /\ HasOversizedStep(messages[k])
    /\ \E k \in 1..3 :
          /\ ~IsIgnoredMessage(messages[k])
          /\ HasOversizedStep(messages[k])

\* every archive reference of the context resolves, in some storage, to a
\* record whose digest is the referenced id
C3_Resolves ==
    \A i \in 1..Len(messages) :
        \A j \in 1..Len(messages[i].content.steps) :
            LET step == messages[i].content.steps[j]
            IN  IsArchiveStep(step) =>
                    \E h \in 1..Len(stores) :
                        /\ HasRow(stores[h], ArchivedId(step))
                        /\ md5sum(get_message(stores[h], ArchivedId(step))) = ArchivedId(step)

\* a step that an operation replaces by an archive reference is stored under
\* the referenced id with its original text
C3_StoredFirst ==
    \A i \in 1..Len(messages) :
        (/\ i <= Len(messages')
         /\ Len(messages'[i].content.steps) = Len(messages[i].content.steps)) =>
            \A j \in 1..Len(messages[i].content.steps) :
                LET old == messages[i].content.steps[j]
                    new == messages'[i].content.steps[j]
                IN  (IsArchiveStep(new) /\ ~IsArchiveStep(old)) =>
                        \E h \in 1..Len(stores') :
                            get_message(stores'[h], ArchivedId(new)) = LinkedText(old)

\* C3: archival loses no information: an archive reference in the live
\* context always resolves to a stored record, stored with the original text
\* of the step (its raw_text for a 2-key step, else the serialized step) by
\* the operation that replaced the step, also when add_message raises
\* part-way through a pass.
C3_NoInformationLost == []C3_Resolves /\ [][C3_StoredFirst]_vars

\* a pass archived a message of the window and the add_message call for a
\* later message of the window raised: that message keeps its steps inline
C3_Witness ==
    \E i \in LinkWindow(Len(messages), index_start, index_end) :
        \E k \in LinkWindow(Len(messages), index_start, index_end) :
            /\ i < k
            /\ HasArchiveStep(messages[i])
            /\ messages[k] = AssistantMsg(json_dump(<<Thought, ActionBig, ObsBigNote>>), <<>>)
            /\ HasRow(stores[1], md5sum(<<"BIG1">>))
            /\ get_message(stores[1], md5sum(<<"BIG1">>)) = <<"BIG1">>

CountRows(store, msg_id) ==
    Cardinality({k \in 1..Len(store.rows) : store.rows[k].msg_id = msg_id})

CountMaps(store, msg_id) ==
    Cardinality({k \in 1..Len(store.maps) : store.maps[k].msg_id = msg_id})

\* C4: records built from the same text get the same msg_id whatever their
\* session, and adding the text twice, in any reachable storage, leaves one
\* message row for it and one mapping row per distinct session.
C4_IdempotentArchival ==
    \A m \in StoreTexts, s1 \in StoreSessions, s2 \in StoreSessions :
        LET r1 == ChatHistoryMessageData(m, None, s1)
            r2 == ChatHistoryMessageData(m, None, s2)
            before == stores[1]
            after == add_message(add_message(before, r1), r2)
            others == {before.maps[k].session_id : k \in
                         {k \in 1..Len(before.maps) : before.maps[k].msg_id = r1.msg_id}}
        IN  /\ r1.msg_id = r2.msg_id
            /\ CountRows(before, r1.msg_id) <= 1
            /\ CountRows(after, r1.msg_id) = 1
            /\ CountMaps(after, r1.msg_id) = Cardinality(others \cup {s1, s2})
            /\ get_message(after, r1.msg_id) = m

\* one text added for both sessions: one message row, two mapping rows
C4_Witness ==
    \E m \in StoreTexts :
        /\ CountRows(stores[1], md5sum(m)) = 1
        /\ CountMaps(stores[1], md5sum(m)) = 2
        /\ Len(stores[1].rows) >= 2

(***************************************************************************)
(* Claims on the agent loop, the gateway and the tool-call extraction      *)
(***************************************************************************)
\* C5: stagnation guard. When the dispatch of the steps of a turn ends and
\* the context is as long as it was right after the assistant message was
\* appended (nothing was appended, a STEP_FINAL step with user_msg and
\* tool_msg None included), the loop returns None: the context is left as
\* it is and no further completion call is made.
C5_StagnationGuard ==
    [][ /\ ( /\ agent.pc = "steps"
             /\ agent'.pc # "steps"
             /\ agent'.ret.code \notin {CODE_TASK_FINAL, CODE_TASK_FAILED}
             /\ Len(messages') = agent.ctx_count )
           => ( /\ agent'.pc = "returned"
                /\ agent'.result = None
                /\ agent'.chat_calls = agent.chat_calls
                /\ messages' = messages )
        /\ agent.pc = "returned" => agent'.chat_calls = agent.chat_calls ]_vars

\* the second turn of a run ended by a STEP_FINAL step that appended nothing
C5_Witness ==
    /\ agent.pc = "returned"
    /\ agent.result = None
    /\ agent.ret = StepCallBase(CODE_STEP_FINAL, NoContent, NoContent, None)
    /\ Len(messages) = agent.ctx_count
    /\ agent.chat_calls = 2

\* C6: a gateway whose every completion attempt raises a rate-limit error
\* makes no more than retry_times + 1 underlying calls, retry_times being
\* the budget the call starts with, and then raises the final exception.
C6_RetryTermination ==
    (chat.pc = "failed" /\ chat.errors = "RateLimitError")
        => chat.calls <= retry_times_initial + 1

RECURSIVE ToolCallDeltas(_)
\* the tool-call deltas of a chunk sequence, in arrival order
ToolCallDeltas(chunks) ==
    IF chunks = <<>> THEN <<>> ELSE Head(chunks).tool_calls \o ToolCallDeltas(Tail(chunks))

DeltasOfIndex(chunks, index) ==
    SelectSeq(ToolCallDeltas(chunks), LAMBDA d : d.index = index)

RECURSIVE ArrivedArguments(_)
\* the argument deltas of one index, concatenated in arrival order
ArrivedArguments(deltas) ==
    IF deltas = <<>> THEN <<>>
    ELSE Head(deltas).function.arguments \o ArrivedArguments(Tail(deltas))

ArrivedIndexes(chunks) ==
    {ToolCallDeltas(chunks)[k].index : k \in 1..Len(ToolCallDeltas(chunks))}

\* the indexes in ascending order
AscendingIndexes(chunks) ==
    CHOOSE order \in [1..Cardinality(ArrivedIndexes(chunks)) -> ArrivedIndexes(chunks)] :
        \A a \in DOMAIN order : \A b \in DOMAIN order : a < b => order[a] < order[b]

\* the places of an index's deltas that carry an id, a name, arguments
WithId(deltas) == {k \in 1..Len(deltas) : deltas[k].id # <<>>}
WithName(deltas) == {k \in 1..Len(deltas) : deltas[k].function.name # <<>>}
WithArguments(deltas) == {k \in 1..Len(deltas) : deltas[k].function.arguments # <<>>}

\* the name arrives in one chunk, with the id, and the arguments in three
NameOnceArgumentsThrice(deltas) ==
    /\ Cardinality(WithName(deltas)) = 1
    /\ WithId(deltas) = WithName(deltas)
    /\ Cardinality(WithArguments(deltas)) = 3

\* the tool call of the non-streamed response that carries the same call
NonStreamedToolCall(deltas) ==
    LET k == CHOOSE k \in WithName(deltas) : TRUE
    IN  ChatCompletionMessageToolCall(deltas[k].id, deltas[k].function.name,
                                      ArrivedArguments(deltas))

\* C7: for any chunk sequence the reconstructed tool-call list has one call
\* per index, in ascending order of index, and the arguments of each call
\* are that index's argument deltas concatenated in arrival order; a call
\* whose name arrives in one chunk and whose arguments arrive in three is
\* the tool call of the non-streamed response carrying the same call.
C7_StreamReconstruction ==
    stream.pc \in {"returned", "raised"} =>
        LET order == AscendingIndexes(stream.chunks)
            tool_calls == stream.response_ccm.tool_calls
        IN  /\ Len(tool_calls) = Cardinality(ArrivedIndexes(stream.chunks))
            /\ \A k \in 1..Len(tool_calls) :
                  LET deltas == DeltasOfIndex(stream.chunks, order[k])
                  IN  /\ tool_calls[k].function.arguments = ArrivedArguments(deltas)
                      /\ tool_calls[k].type = "function"
                      /\ NameOnceArgumentsThrice(deltas)
                            => tool_calls[k] = NonStreamedToolCall(deltas)

\* the deltas of call 1 arrive between those of call 0, whose name arrives
\* once and whose arguments arrive in three chunks
C7_Witness ==
    /\ stream.pc = "returned"
    /\ Len(stream.response_ccm.tool_calls) = 2
    /\ NameOnceArgumentsThrice(DeltasOfIndex(stream.chunks, 0))
    /\ stream.response_ccm.tool_calls[1].function.arguments = <<"{", "a", "}">>
    /\ \E a \in 1..Len(stream.chunks) : \E b \in 1..Len(stream.chunks) :
          \E c \in 1..Len(stream.chunks) :
              /\ a < b /\ b < c
              /\ DeltasOfIndex(<<stream.chunks[a]>>, 0) # <<>>
              /\ DeltasOfIndex(<<stream.chunks[b]>>, 1) # <<>>
              /\ DeltasOfIndex(<<stream.chunks[c]>>, 0) # <<>>

\* the raw texts that hold a tool call with a name
RawTextsWithCall ==
    {EmbeddedCall("raw_tool", "z"),
     <<"[">> \o EmbeddedCall("raw_tool", "z") \o <<",">> \o EmbeddedCall("other", "w") \o <<"]">>,
     <<"FENCE_JSON">> \o EmbeddedCall("raw_tool", "z") \o <<"FENCE">>}

HasToolCalls(rsp_msg_obj) ==
    "tool_calls" \in DOMAIN rsp_msg_obj /\ rsp_msg_obj.tool_calls # <<>>

HasRawCall(step) == "raw_text" \in DOMAIN step /\ step["raw_text"] \in RawTextsWithCall

\* the ToolCallInfo of the first structured entry
StructuredInfo(rsp_msg_obj) ==
    LET function == rsp_msg_obj.tool_calls[1].function
    IN  ToolCallInfo(function.name,
                     IF IsJsonDict(function.arguments)
                     THEN json_load_dict(function.arguments) ELSE {})

\* the ToolCallInfo of the step's own tool_call/tool_args pair
StepInfo(step) ==
    ToolCallInfo(step["tool_call"],
                 IF "tool_args" \in DOMAIN step THEN step["tool_args"] ELSE {})

\* the first structured entry has a name, and arguments that are empty or JSON
UsableEntry(rsp_msg_obj) ==
    /\ HasToolCalls(rsp_msg_obj)
    /\ rsp_msg_obj.tool_calls[1].function.name # <<>>
    /\ \/ rsp_msg_obj.tool_calls[1].function.arguments = <<>>
       \/ IsJsonDict(rsp_msg_obj.tool_calls[1].function.arguments)

C9_OnlyTaskFinalAnswers ==
    [][ /\ (agent.pc # "returned" /\ agent'.pc = "returned" /\ agent'.result # None)
           => (agent.pc = "steps" /\ agent'.ret.code = CODE_TASK_FINAL)
        /\ (agent.pc = "steps" /\ agent'.ret.code = CODE_TASK_FINAL)
           => ( /\ agent'.pc = "returned"
                /\ agent'.result = agent'.ret.result
                /\ agent'.index = agent.index
                /\ agent'.chat_calls = agent.chat_calls
                /\ messages' = messages )
        /\ (agent.pc = "steps" /\ agent'.ret.code = CODE_TASK_FAILED)
           => ( /\ agent'.pc = "returned"
                /\ agent'.result = None
                /\ agent'.index = agent.index
                /\ agent'.chat_calls = agent.chat_calls
                /\ messages' = messages )
        /\ (agent.pc = "chat" /\ agent'.pc # "raised" /\ agent'.response = <<>>)
           => ( /\ agent'.pc = "returned"
                /\ agent'.result = None
                /\ messages' = messages )
        /\ agent.pc = "returned" => (agent' = agent /\ messages' = messages) ]_vars

\* the first step of a two-step response of the second turn is TASK_FINAL
C9_Witness ==
    /\ agent.pc = "returned"
    /\ agent.result = <<"answer">>
    /\ agent.ret.code = CODE_TASK_FINAL
    /\ agent.index = 1
    /\ Len(agent.response) = 2
    /\ agent.chat_calls = 2
    /\ Len(messages) = agent.ctx_count

\* C10: a run of the agent loop that terminates has returned a final answer
\* or None; no failure reaches the caller in another form.
C10_ReturnsAnswerOrNone ==
    agent.pc \in {"returned", "raised"} => agent.pc = "returned"

(***************************************************************************)
(* Claims on the iteration cap, the retries and the tool messages          *)
(***************************************************************************)
\* C11: one task makes at most max_count (100) completion calls and then
\* terminates, even when every turn makes progress and no step signals the
\* end of the task.
C11_IterationCap ==
    agent.chat_calls <= max_count

\* the errors a completion attempt raises that the retry loop recovers from
RecoverableErrors ==
    {"RateLimitError", "APITimeoutError", "APIConnectionError", "InternalServerError",
     "BadRequestError"}

BudgetExhausted == chat.i >= range_stop \/ chat.i > chat.retry_times

\* C12: a rate-limit, timeout, connection, internal-server or bad-request
\* error of a completion attempt never escapes chat(): while budget remains
\* the loop goes on to the next attempt, and the only exception raised on
\* account of such errors is the single failure after the budget is exhausted.
C12_RecoverableNeverEscapes ==
    /\ chat.raised \notin RecoverableErrors
    /\ (chat.calls > 0 /\ chat.errors \in RecoverableErrors)
           => /\ chat.pc \in {"loop", "returned", "failed"}
              /\ chat.pc = "failed" <=> chat.raised = chat_failed
              /\ chat.pc = "failed" => BudgetExhausted
              /\ (chat.pc = "loop" => ~BudgetExhausted /\ chat.raised = "none")

C12_Witness ==
    /\ chat.pc = "failed"
    /\ chat.errors = "BadRequestError"
    /\ chat.raised = chat_failed
    /\ chat.calls = retry_times_initial + 1


\* C13: add_tool_message appends a tool-role message carrying the id of the
\* first tool call of the most recent assistant message whenever that message
\* carries tool calls; so in a turn whose assistant message carries tool calls
\* and whose step returns a user message and a tool message, the tool result
\* in the context is linked to the assistant's first tool call.
C13_ToolResultLinked ==
    (/\ agent.pc = "chat"
     /\ agent.ret.code = CODE_STEP_FINAL
     /\ agent.ret.tool_msg # NoContent
     /\ agent.tool_calls # <<>>)
        => LET last_message == messages[Len(messages)]
           IN  /\ last_message.role = ROLE_TOOL
               /\ last_message.tool_call_id = agent.tool_calls[1].id


\* C14: on the non-streaming path a completion with empty content and tool
\* calls is returned with the placeholder action marker as its content: the
\* attempt raises nothing and consumes no retry.
C14_PlaceholderForEmptyContent ==
    (/\ stream.pc \in {"returned", "raised"}
     /\ stream.response_ccm.content = <<>>
     /\ stream.response_ccm.tool_calls # <<>>)
        => /\ stream.pc = "returned"
           /\ stream.rsp_content = TOPSAILAI_STEP_ACTION
           /\ chat.pc = "returned"


\* C15: chat() never changes the caller's message list: whatever the outcome
\* of an attempt, the list has the same messages in the same order with the
\* same fields and contents, the reformatting being applied to a deep copy.
C15_CallerUnchanged ==
    [][messages' = messages]_vars

C15_Witness ==
    /\ chat.pc = "failed"
    /\ chat.calls = retry_times_initial + 1
    /\ chat.params # messages
    /\ Len(chat.params) = Len(messages)
    /\ chat.params[4].content.fmt = "topsailai"
    /\ messages[4].content.fmt = "json"


\* the calls of the hooks of one list, each once, in registration order
CallsInOrder(calls, list, n) ==
    /\ Len(calls) = n
    /\ \A k \in 1..n : calls[k].list = list /\ calls[k].index = k

\* the header that reset_messages builds is at the head of the context
SessionHeader ==
    /\ Len(messages) >= HeaderLen(cfg)
    /\ messages[1] = SystemMsg(TextContent(cfg.system_prompt))
    /\ messages[2].role = ROLE_SYSTEM
    /\ cfg.tool_prompt # <<>> => messages[3] = SystemMsg(TextContent(cfg.tool_prompt))

\* C16: whichever registered hooks raise, new_session calls every hook of
\* hooks_after_init_prompt and then every hook of hooks_after_new_session
\* exactly once in registration order with the live context, swallows the
\* exceptions, and completes with the header and the initial user message in
\* the context.
C16_HookIsolation ==
    agent.pc # "idle" =>
        LET n1 == Len(agent.hooks_after_init_prompt)
            n2 == Len(agent.hooks_after_new_session)
            calls == agent.hook_calls
        IN  /\ agent.pc = "chat"
            /\ Len(calls) = n1 + n2
            /\ CallsInOrder(SubSeq(calls, 1, n1), "hooks_after_init_prompt", n1)
            /\ CallsInOrder(SubSeq(calls, n1 + 1, n1 + n2), "hooks_after_new_session", n2)
            /\ \A k \in 1..n1 : calls[k].seen >= HeaderLen(cfg)
            /\ \A k \in (n1 + 1)..(n1 + n2) : calls[k].seen >= HeaderLen(cfg) + 1
            /\ SessionHeader
            /\ \E k \in 1..Len(messages) :
                  messages[k] = UserMsg(hook_format_content(SessionTask))

C16_Witness ==
    /\ agent.pc = "chat"
    /\ agent.hooks_after_init_prompt = <<"raise", "extend">>
    /\ agent.hooks_after_new_session = <<"extend_raise", "pass">>
    /\ Len(agent.hook_calls) = 4
    /\ Len(messages) = HeaderLen(cfg) + 3


\* C17: with two history stores, the archival pass that an append triggers
\* stores the record of every archived step in each store, so that every
\* archive reference of the context resolves from any of the stores.
C17_FanOutWrites ==
    \A i \in 1..Len(messages) :
        \A j \in 1..Len(messages[i].content.steps) :
            LET step == messages[i].content.steps[j]
            IN  IsArchiveStep(step) =>
                    \A h \in 1..Len(stores) : HasRow(stores[h], ArchivedId(step))


\* C18: the tracker never ends on account of its lifetime while messages keep
\* arriving: a lifetime check made within 600 s of the last add_msgs call
\* lets the thread go on, however far the clock is past the end time.
C18_NoLifetimeExitWhileInUse ==
    [][(tokenStat.quit = "none" /\ tokenStat'.quit = "lifetime")
          => tokenStat.now - tokenStat._last_msg_time > max_idle_time]_vars

C18_Witness ==
    /\ tokenStat.pc # "exited"
    /\ tokenStat.submitted > 0
    /\ tokenStat.checked_at = tokenStat.now
    /\ tokenStat.now > tokenStat._end_time + lifetime_default
    /\ tokenStat._end_time # 0
    /\ tokenStat.now - tokenStat._last_msg_time <= max_idle_time

\* C19: the most recently submitted batch is never discarded: when the
\* running tracker has nothing left to consume, its current counters are those
\* of the last batch handed to add_msgs.
C19_LastBatchCounted ==
    (/\ tokenStat.pc = "loop"
     /\ tokenStat.flag_running
     /\ tokenStat.buffer = None
     /\ tokenStat.submitted > 0)
        => /\ tokenStat.current_count = count_tokens(tokenStat.last_msgs)
           /\ tokenStat.current_text_len = StrLen(tokenStat.last_msgs)


\* C20: is_exceeded is True whenever the list has at least max(27, slim_len)
\* messages, also with a token count of 0, True whenever the token count is at
\* least 0.8 of the maximum, also for a short list, and False otherwise.
C20_EitherThreshold ==
    LET floor == IF cfg.slim_len < 27 THEN 27 ELSE cfg.slim_len
        long == Len(messages) >= floor
        heavy == 5 * CountTokens(messages) >= 4 * cfg.token_max
    IN  /\ long => is_exceeded(messages, cfg)
        /\ heavy => is_exceeded(messages, cfg)
        /\ (~long /\ ~heavy) => ~is_exceeded(messages, cfg)

C20_Witness ==
    /\ cfg.slim_len = 10
    /\ Len(messages) = 27
    /\ CountTokens(messages) = 0
    /\ is_exceeded(messages, cfg)

(***************************************************************************)
(* Claims on the tool registry                                             *)
(***************************************************************************)
\* the positions of the registry whose key is the stripped requested name
ExactKeys == {k \in 1..Len(agent.tool_map) : agent.tool_map[k].name = strip(agent.tool_name)}

\* the positions whose key equals the requested name once "." is "-" in both
DashedKeys ==
    {k \in 1..Len(agent.tool_map) :
        replace(agent.tool_map[k].name, ".", "-") = replace(strip(agent.tool_name), ".", "-")}

\* the same, the key being stripped after the replacement as well
DashedStrippedKeys ==
    {k \in 1..Len(agent.tool_map) :
        strip(replace(agent.tool_map[k].name, ".", "-"))
            = replace(strip(agent.tool_name), ".", "-")}

FirstOf(S) == CHOOSE k \in S : \A j \in S : k <= j

\* the lookup that prefers an exact key and otherwise takes the first of hits
Resolves(hits) ==
    agent.pc = "done" =>
        IF strip(agent.tool_name) = <<>> \/ agent.tool_map = <<>> THEN agent.func = None
        ELSE IF ExactKeys # {} THEN agent.func = agent.tool_map[FirstOf(ExactKeys)].func
        ELSE IF hits # {} THEN agent.func = agent.tool_map[FirstOf(hits)].func
        ELSE agent.func = None

\* C21 as stated: exact key first, else the first key equal to the requested
\* name once "." is replaced by "-" in both, else None
C21_DashedLookup == Resolves(DashedKeys)

\* C21 amended: the registry key is also stripped of surrounding blanks after
\* the replacement, so a padded key resolves the unpadded name
C21_DashedStrippedLookup == Resolves(DashedStrippedKeys)

\* a padded dotted key resolves the dashed name
C21_Witness ==
    /\ agent.pc = "done"
    /\ agent.tool_name = <<"fs", "-", "read">>
    /\ Len(agent.tool_map) = 2
    /\ agent.tool_map[1].name = <<" ", "fs", ".", "read", " ">>
    /\ agent.tool_map[2].name = <<"cat">>
    /\ agent.func = Callables[1]

(***************************************************************************)
(* Claims on the retry loop of chat()                                      *)
(***************************************************************************)
\* min(max(3, (i mod retry_times) * 5), 120)
ClampedDelay(i, retry_times) ==
    LET sec == (i % retry_times) * 5
        raised == IF sec < 3 THEN 3 ELSE sec
    IN  IF raised > 120 THEN 120 ELSE raised

\* a step of chat() that makes one completion call
Attempts == chat'.calls = chat.calls + 1

FailsWith(e) == chat.pc = "loop" /\ chat' = chat_attempt(chat, e)

\* C23: retry_times is 10 before the first attempt and changes only by +1,
\* exactly on an attempt with i > 7 that fails with a rate-limit,
\* internal-server, connection or timeout error; format, empty-response,
\* permission-denied and bad-request failures leave it alone, and a call that
\* fails without any extension makes exactly 11 completion calls
C23_RetryLimitExtension ==
    [][/\ chat.calls = 0 => chat.retry_times = 10
       /\ chat'.retry_times \in {chat.retry_times, chat.retry_times + 1}
       /\ chat'.retry_times # chat.retry_times =>
             chat.i > 7 /\ chat'.calls = chat.calls + 1 /\ chat'.pc # "returned"
       /\ \A e \in {"RateLimitError", "InternalServerError", "APIConnectionError",
                    "APITimeoutError"} :
             FailsWith(e) =>
                (chat'.retry_times = chat.retry_times + 1 <=> chat.i > 7)
       /\ \A e \in {"JsonError", "TypeError", "PermissionDeniedError", "BadRequestError"} :
             FailsWith(e) => chat'.retry_times = chat.retry_times
       /\ chat'.pc = "failed" /\ chat'.retry_times = 10 => chat'.calls = 11
       /\ chat'.errors \in {"RateLimitError", "InternalServerError", "APIConnectionError",
                            "APITimeoutError"} =>
             chat'.retry_times = 10 + Max(0, chat'.i - 8)
       /\ chat'.errors \in {"JsonError", "TypeError", "PermissionDeniedError",
                            "BadRequestError"} =>
             /\ chat'.retry_times = 10
             /\ chat'.pc = "failed" <=> chat'.i = 11
             /\ chat'.pc = "failed" => chat'.calls = 11]_vars

\* a call of which every attempt was denied permission has given up
C23_Witness ==
    /\ chat.pc = "failed"
    /\ chat.errors = "PermissionDeniedError"
    /\ chat.calls = 11
    /\ chat.retry_times = 10

\* C24: chat() makes at most 100 completion calls under every sequence of
\* outcomes and then has returned or raised
C24_ChatTerminates ==
    /\ [](chat.calls <= 100)
    /\ <>(chat.pc \in {"returned", "failed", "raised"})

\* a call that used up the whole range
C24_Witness ==
    /\ chat.pc = "failed"
    /\ chat.calls = 100
    /\ chat.i = 100
    /\ chat.retry_times > 100

\* C25: while every attempt of the call so far has failed with an internal
\* server error, so that the run of consecutive internal server errors is the
\* number of failed attempts, the pool is rebuilt on a failure when, and only
\* when, that run has reached a multiple of 6
C25_RebuildEverySixth ==
    [][(chat'.errors = "InternalServerError" /\ chat'.i = chat.i + 1) =>
          (chat'.rebuilds = chat.rebuilds + 1 <=> chat'.i % 6 = 0)]_vars

(***************************************************************************)
(* Claims on the dispatch of the steps of a turn                           *)
(***************************************************************************)
\* the codes that end the dispatch of a turn
ActionableCodes == {CODE_TASK_FINAL, CODE_TASK_FAILED, CODE_STEP_FINAL}

\* the messages a STEP_FINAL step hands over that are not None
HandedOver(ret) ==
    (IF ret.user_msg # NoContent THEN 1 ELSE 0) + (IF ret.tool_msg # NoContent THEN 1 ELSE 0)

\* C26: the steps of a response are dispatched in order from the first; the
\* dispatch stops at the first step whose result is TASK_FINAL, TASK_FAILED or
\* STEP_FINAL, so no later step is dispatched, and a turn appends at most one
\* user message and one tool message, those of that STEP_FINAL step
C26_FirstActionableStepWins ==
    [][/\ (agent.pc = "chat" /\ agent'.pc = "steps") => agent'.index = 1
       /\ agent.pc = "steps" =>
             /\ Len(messages) = agent.ctx_count
             /\ agent'.ret.code \in ActionableCodes =>
                   agent'.pc # "steps" /\ agent'.index = agent.index
             /\ (agent'.ret.code \notin ActionableCodes /\ agent.index < Len(agent.response)) =>
                   /\ agent'.pc = "steps"
                   /\ agent'.index = agent.index + 1
                   /\ messages' = messages
             /\ agent'.ret.code # CODE_STEP_FINAL => Len(messages') = Len(messages)
             /\ agent'.ret.code = CODE_STEP_FINAL =>
                   /\ Len(messages') = Len(messages) + HandedOver(agent'.ret)
                   /\ SubSeq(messages', 1, Len(messages)) = 
                         [messages EXCEPT ![2] = messages'[2]]]_vars

\* a turn of two steps ended by its first step, which handed over both messages
C26_Witness ==
    /\ agent.pc = "chat"
    /\ agent.ret.code = CODE_STEP_FINAL
    /\ agent.index = 1
    /\ Len(agent.response) = 2
    /\ Len(messages) = agent.ctx_count + 2

\* the message at position ctx_count is the assistant message of the turn
AssistantOfTurn(msgs, a) ==
    /\ Len(msgs) >= a.ctx_count
    /\ msgs[a.ctx_count] = AssistantMsg(to_json_str(PyList(a.response)), a.tool_calls)

\* what add_user_message and add_tool_message make of the two messages of ret
UserPart(ret) ==
    IF ret.user_msg # NoContent THEN <<to_json_str(ret.user_msg)>> ELSE <<>>
ToolPart(ret) ==
    IF ret.tool_msg # NoContent THEN <<to_json_str(ret.tool_msg)>> ELSE <<>>

\* C27: the assistant message of a turn, with its tool_calls, is appended
\* before the first step of the response is dispatched and is in the context
\* after every dispatch, whichever way the turn or the run ends; a STEP_FINAL
\* step then appends the user message followed by the tool message, each only
\* if it is not None, so the turn reads assistant, user, tool
C27_AppendOrder ==
    [][/\ (agent.pc = "chat" /\ agent'.pc = "steps") =>
             /\ Len(messages') = Len(messages) + 1
             /\ agent'.ctx_count = Len(messages')
             /\ AssistantOfTurn(messages', agent')
       /\ agent.pc = "steps" =>
             /\ AssistantOfTurn(messages, agent)
             /\ AssistantOfTurn(messages', agent')
             /\ agent'.ctx_count = agent.ctx_count
             /\ agent'.ret.code = CODE_STEP_FINAL =>
                   LET added == SubSeq(messages', agent.ctx_count + 1, Len(messages'))
                       nuser == Len(UserPart(agent'.ret))
                   IN  /\ [k \in 1..Len(added) |-> added[k].content]
                              = UserPart(agent'.ret) \o ToolPart(agent'.ret)
                       /\ \A k \in 1..Len(added) :
                             ("tool_call_id" \in DOMAIN added[k]) <=> k > nuser
                       /\ \A k \in 1..nuser : added[k].role = ROLE_USER]_vars

\* a turn whose assistant message carries a tool call and whose step handed
\* over a user message and a tool message
C27_Witness ==
    /\ agent.pc = "chat"
    /\ agent.ret.code = CODE_STEP_FINAL
    /\ agent.tool_calls # <<>>
    /\ Len(messages) = agent.ctx_count + 2
    /\ messages[agent.ctx_count].role = ROLE_ASSISTANT
    /\ messages[agent.ctx_count + 1].role = ROLE_USER
    /\ "tool_call_id" \in DOMAIN messages[agent.ctx_count + 2]

(***************************************************************************)
(* Claims on the fall-through of the extraction, the streamed function     *)
(* name and the reformatting pass                                          *)
(***************************************************************************)
\* the step's own tool_call names a tool
StepNamesTool(step) == "tool_call" \in DOMAIN step /\ step["tool_call"] # <<>>

\* C28: a source that yields no usable tool call is passed over for the next
\* one: when the first structured entry is not usable (its arguments do not
\* parse as JSON, or it has no name) and the step names a tool, the result is
\* the step's tool_call/tool_args pair; and the result is None only when
\* neither the step nor its raw_text names a tool
C28_FallsThrough ==
    extract.pc = "done" =>
        /\ ( /\ HasToolCalls(extract.rsp_msg_obj)
             /\ ~UsableEntry(extract.rsp_msg_obj)
             /\ StepNamesTool(extract.step) )
           => extract.result = StepInfo(extract.step)
        /\ extract.result = NoToolCallInfo =>
              /\ ~StepNamesTool(extract.step)
              /\ ~HasRawCall(extract.step)

RECURSIVE ArrivedName(_)
\* the name deltas of one index, concatenated in arrival order
ArrivedName(deltas) ==
    IF deltas = <<>> THEN <<>>
    ELSE Head(deltas).function.name \o ArrivedName(Tail(deltas))

\* C29: the function name of each reconstructed tool call is the
\* concatenation, in arrival order, of the name parts delivered for its index
C29_NameConcatenated ==
    stream.pc \in {"returned", "raised"} =>
        LET order == AscendingIndexes(stream.chunks)
            tool_calls == stream.response_ccm.tool_calls
        IN  \A k \in 1..Len(tool_calls) :
                tool_calls[k].function.name
                    = ArrivedName(DeltasOfIndex(stream.chunks, order[k]))

\* C30: the parameters of a completion call carry every header message as
\* the context holds it: messages[0] and messages[1], and with a header of
\* three messages the tool prompt at index 2 as well
C30_HeaderNotReformatted ==
    chat.params # <<>> =>
        \A k \in 1..HeaderLen(cfg) : chat.params[k] = messages[k]

(***************************************************************************)
(* Claims on the message list between resets and on the archival pass      *)
(***************************************************************************)
\* message k keeps its role and every key but its content
KeepsAllButContent(k) ==
    messages'[k] = [messages[k] EXCEPT !.content = messages'[k].content]

\* the content new is the content old in which at least one step was replaced
\* by an archive reference and every other step was kept
ArchivedIn(old, new) ==
    /\ old.fmt = "json"
    /\ new.fmt = "json"
    /\ Len(new.steps) = Len(old.steps)
    /\ \E j \in 1..Len(old.steps) : IsArchiveStep(new.steps[j]) /\ ~IsArchiveStep(old.steps[j])
    /\ \A j \in 1..Len(old.steps) : new.steps[j] = old.steps[j] \/ IsArchiveStep(new.steps[j])

\* a step that keeps the messages present, in their places, with their roles
AppendOnlyStep ==
    /\ Len(messages') \in {Len(messages), Len(messages) + 1}
    /\ \A k \in 1..Len(messages) :
          /\ KeepsAllButContent(k)
          /\ messages'[k].content # messages[k].content =>
                IF k = 2
                THEN /\ Len(messages') = Len(messages)
                     /\ \A j \in 1..Len(messages) : j # 2 => messages'[j] = messages[j]
                ELSE ArchivedIn(messages[k].content, messages'[k].content)

\* C31: between resets (reset_messages, and new_session which resets) no
\* append, archival pass or environment refresh removes or reorders a
\* message, changes its role or any key other than its content; a content
\* changes only by archival, in a message of which a step was archived, or by
\* the environment refresh, which rewrites messages[1] and nothing else
C31_AppendOnlyBetweenResets ==
    [][ResetMessages \/ NewSession \/ AppendOnlyStep]_vars

\* a full list in which a pass archived the oversized steps of one message
\* and kept its small step, after the environment message was refreshed
C31_Witness ==
    /\ Len(messages) >= 15
    /\ messages[2].content.text = <<"env", "t1">>
    /\ \E i \in 1..Len(messages) :
          /\ HasArchiveStep(messages[i])
          /\ Len(messages[i].content.steps) = 3
          /\ messages[i].content.steps[1] = Thought

\* the eligibility of a step of a message for archival under max_size size
Eligible(msg, step, size) ==
    /\ msg.role # ROLE_SYSTEM
    /\ msg.role = ROLE_USER => "tool_call_id" \in DOMAIN msg
    /\ msg.content.fmt = "json"
    /\ step["step_name"] \in {<<"action">>, <<"observation">>}
    /\ DictStrLen(step) > size

\* the step j of message i is replaced by an archive reference in this step
Replaced(i, j) ==
    /\ Len(messages'[i].content.steps) = Len(messages[i].content.steps)
    /\ IsArchiveStep(messages'[i].content.steps[j])
    /\ ~IsArchiveStep(messages[i].content.steps[j])

Unarchivable(msg) == msg.content.fmt \in {"empty", "badjson"}

\* C33: a pass in which no add_message call fails handles the messages of
\* the window one by one: a message with empty or non-JSON content is passed
\* over, and the oversized eligible steps of the later messages of the window
\* are archived by the same pass
C33_MessagesIndependent ==
    [][(agent'.pc = "linked" /\ agent'.failAt = 0) =>
          \A i \in 4..(Len(messages) - 11) : \A k \in 4..(Len(messages) - 11) :
              (i < k /\ Unarchivable(messages[i])) =>
                  /\ messages'[i] = messages[i]
                  /\ \A j \in 1..Len(messages[k].content.steps) :
                        Eligible(messages[k], messages[k].content.steps[j],
                                 agent'.max_size)
                            => Replaced(k, j)]_vars


(***************************************************************************)
(* Claims on the session records of an append                              *)
(***************************************************************************)
\* the calls of the sequence made on history hooks with operation op
CallsOf(calls, op) == SelectSeq(calls, LAMBDA x : x.op = op)

\* C34: with a session id bound and k history stores, an append hands the
\* appended message, and no other, to add_session_message of each of the k
\* stores once, in configuration order and before the threshold is tested;
\* a call that raises keeps neither the later stores from their call, nor the
\* threshold test and the archival passes, nor the append.
C34_SessionOffer ==
    [][(agent'.pc = "appended" /\ cfg.session_id # NoSession) =>
          LET k == Len(stores)
              calls == agent'.calls
          IN  /\ Len(messages') = Len(messages) + 1
              /\ messages'[Len(messages')] = agent'.msg
              /\ Len(calls) > k
              /\ \A h \in 1..k :
                    calls[h] = [op |-> "add_session_message", hook |-> h, last |-> agent'.msg]
              /\ calls[k + 1].op = "is_exceeded"
              /\ Len(CallsOf(calls, "add_session_message")) = k
              /\ \A h \in 1..k :
                    ~agent'.g[h] =>
                        HasMap(stores'[h], cfg.session_id,
                               md5sum(SessionText(agent'.msg, get_current_date(messages'))))
              /\ is_exceeded(Append(messages, agent'.msg), cfg) =>
                    /\ Len(calls) = 2 * k + 1
                    /\ \A h \in 1..k : calls[k + 1 + h].op = "link_messages"
                                       /\ calls[k + 1 + h].hook = h]_vars

\* two stores, the call on the first raised: the second holds the session
\* record, and the archival pass that followed left an archive reference
C34_Witness ==
    /\ agent.pc = "appended"
    /\ cfg.session_id = "s1"
    /\ Len(stores) = 2
    /\ agent.g = <<TRUE, FALSE>>
    /\ Len(agent.calls) = 5
    /\ ~HasMap(stores[1], "s1", md5sum(SessionText(agent.msg, get_current_date(messages))))
    /\ HasMap(stores[2], "s1", md5sum(SessionText(agent.msg, get_current_date(messages))))
    /\ \E i \in 1..Len(messages) : HasArchiveStep(messages[i])


(***************************************************************************)
(* Claims on _format_response                                              *)
(***************************************************************************)
\* C35: _format_response on a string ends after at most 3 parse attempts, of
\* which at most one is the prefixed step-format parse, and either returns a
\* list or raises JsonError; an empty or whitespace-only string raises
\* JsonError without a parse attempt; a list is returned unchanged.
C35_ListOrJsonError ==
    agent.pc = "done" =>
        /\ agent.result.attempts <= 3
        /\ agent.result.prefixed <= 1
        /\ agent.result.kind \in {"list", "JsonError"}
        /\ (agent.response.py = "str" /\ str_strip(agent.response.value) = <<>>)
              => agent.result = FormatResult("JsonError", <<>>, 0, 0)
        /\ agent.response.py = "list"
              => agent.result = FormatResult("list", agent.response.value, 0, 0)


(***************************************************************************)
(* Claims on the end of the TokenStat thread                               *)
(***************************************************************************)
\* the thread ends on account of its lifetime in this step
LifetimeExit == tokenStat.quit = "none" /\ tokenStat'.quit = "lifetime"

\* a lifetime check is made in this step
LifetimeCheck ==
    /\ tokenStat.pc = "loop"
    /\ tokenStat.flag_running
    /\ tokenStat'.checked_at = tokenStat.now
    /\ tokenStat'.count_freq = 0
    /\ tokenStat.count_freq = check_after

\* C36: a tracker with a lifetime > 0 ends once add_msgs calls have stopped,
\* on account of its lifetime only when lifetime + 60 s have passed since its
\* construction and more than 600 s since the last add_msgs call; a tracker
\* that never received a batch ends at the first check after lifetime + 60 s.
C36_LifetimeTermination ==
    /\ [][LifetimeExit =>
            /\ \E lifetime \in Lifetimes :
                  /\ tokenStat._end_time = tokenStat._start_time + lifetime + 60
                  /\ tokenStat.now - tokenStat._start_time > lifetime + 60
            /\ tokenStat.now - tokenStat._last_msg_time > 600]_vars
    /\ [][(/\ LifetimeCheck
           /\ tokenStat.submitted = 0
           /\ \E lifetime \in Lifetimes :
                 /\ tokenStat._end_time = tokenStat._start_time + lifetime + 60
                 /\ tokenStat.now - tokenStat._start_time > lifetime + 60)
              => LifetimeExit]_vars
    /\ <>(tokenStat.pc = "exited")

\* the thread ended on account of its lifetime after it had counted a batch
\* handed in after the lifetime was over
C36_Witness ==
    /\ tokenStat.pc = "exited"
    /\ tokenStat.quit = "lifetime"
    /\ tokenStat.flag_running
    /\ tokenStat.submitted > 0
    /\ tokenStat._last_msg_time > tokenStat._end_time
    /\ tokenStat.total_count > 0


\* C37: the request path never waits for the tracker: no call of add_msgs or
\* output_token_stat finds the lock held, because the thread never holds the
\* lock while it counts the tokens of a batch.
C37_NeverBlocksRequests ==
    /\ agent.pc # "waiting"
    /\ ~(tokenStat.rlock = "thread" /\ tokenStat.pc = "counting")


(***************************************************************************)
(* Claims on repeated archival passes                                      *)
(***************************************************************************)
\* a pass without storage failure on the list and the storage given
CleanPass(msgs, store) == link_messages(msgs, store, cfg.session_id, 0)

\* C38: the archival pass is idempotent: a second pass over the result of a
\* pass leaves the list and the storage as the first pass left them; a step
\* that is an archive reference is never replaced; no record is stored twice.
C38_PassIdempotent ==
    /\ [](LET first == CleanPass(messages, stores[1])
              second == CleanPass(first.messages, first.store)
          IN  /\ second.messages = first.messages
              /\ second.store = first.store)
    /\ [][\A i \in 1..Len(messages) :
             \A j \in 1..Len(messages[i].content.steps) :
                 IsArchiveStep(messages[i].content.steps[j])
                     => messages'[i].content.steps[j] = messages[i].content.steps[j]]_vars
    /\ [](\A k \in 1..Len(stores[1].rows) :
             CountRows(stores[1], stores[1].rows[k].msg_id) = 1)

\* two messages of the window hold a reference to the same record, stored
\* once, and a further pass changes nothing
C38_Witness ==
    /\ \E i \in 1..Len(messages), k \in 1..Len(messages) :
          /\ i < k
          /\ \E j \in 1..Len(messages[i].content.steps), l \in 1..Len(messages[k].content.steps) :
                /\ IsArchiveStep(messages[i].content.steps[j])
                /\ messages[k].content.steps[l] = messages[i].content.steps[j]
                /\ CountRows(stores[1], ArchivedId(messages[i].content.steps[j])) = 1
    /\ CleanPass(messages, stores[1]).messages = messages
    /\ CleanPass(messages, stores[1]).store = stores[1]


(***************************************************************************)
(* Claims on the content senders                                           *)
(***************************************************************************)
RECURSIVE Concat(_)
Concat(texts) == IF texts = <<>> THEN <<>> ELSE Head(texts) \o Concat(Tail(texts))

\* C39: when chat() returns, the senders have received the content of the
\* returned response and nothing else: once and whole without streaming,
\* piece by piece with streaming; nothing of an attempt that failed and was
\* retried has been delivered.
C39_DeliveredOnce ==
    chat.pc = "returned" =>
        IF agent.for_stream
        THEN strip(Concat(agent.sent)) = agent.returned
        ELSE agent.sent = <<agent.returned>>


(***************************************************************************)
(* Claims on truncate_message                                              *)
(***************************************************************************)
\* C40: truncate_message returns the message unchanged whenever
\* is_need_truncate is false for its length (below 3000, or at most 13000
\* for AgentWriter); otherwise it returns the first MAX_MSG_SIZE characters
\* followed by the suffix; the suffix is there exactly when content was cut.
C40_TruncateExact ==
    agent.pc = "done" =>
        LET need == is_need_truncate(agent.msg.len, agent.agent_name)
            cut == agent.result.body.len < agent.msg.len
        IN  /\ need <=> ~(\/ agent.msg.len < 3000
                          \/ agent.agent_name = "AgentWriter" /\ agent.msg.len <= 13000)
            /\ ~need => agent.result = [body |-> agent.msg, suffix |-> ""]
            /\ need => agent.result = [body |-> Slice(agent.msg, MAX_MSG_SIZE),
                                       suffix |-> truncate_suffix]
            /\ (agent.result.suffix # "") <=> cut

====
